---- MODULE Spec2Model ----
(***************************************************************************)
(* ModDash: the /generate, /evaluate pipeline of backend/server.js (its    *)
(* four revisions: placeholder, fallback, single-prompt, two-agent), its   *)
(* /export-db route, and parseJudgeSummary and handleGenerate of           *)
(* frontend/src/main.js.                                                   *)
(*                                                                         *)
(* A text is a sequence of atoms.  In the judge report and in rule,        *)
(* example and count strings an atom is one character; in a prompt a       *)
(* fixed block of the template is one atom; in a generation completion an  *)
(* atom is one JSON token or one whitespace character.                     *)
(***************************************************************************)
EXTENDS Integers, Sequences, FiniteSets, TLC

(***************************************************************************)
(* String primitives of JavaScript used by the code.                       *)
(***************************************************************************)

\* the characters String.prototype.trim removes and the regex class \s matches
WhiteSpace == {" ", "\t", "\n", "\r"}

Digits == {"0", "1", "2", "3", "4", "5", "6", "7", "8", "9"}

DigitSeq == <<"0", "1", "2", "3", "4", "5", "6", "7", "8", "9">>

UpperSeq == <<"A", "B", "C", "D", "E", "F", "G", "H", "I", "J", "K", "L", "M",
              "N", "O", "P", "Q", "R", "S", "T", "U", "V", "W", "X", "Y", "Z">>

LowerSeq == <<"a", "b", "c", "d", "e", "f", "g", "h", "i", "j", "k", "l", "m",
              "n", "o", "p", "q", "r", "s", "t", "u", "v", "w", "x", "y", "z">>

\* String.prototype.toLowerCase on one character
LowerChar(c) ==
  IF \E k \in 1..Len(UpperSeq) : UpperSeq[k] = c
    THEN LowerSeq[CHOOSE k \in 1..Len(UpperSeq) : UpperSeq[k] = c]
    ELSE c

ToLowerCase(s) == [k \in 1..Len(s) |-> LowerChar(s[k])]

\* String.prototype.trim
Trim(s) ==
  LET keep == {k \in 1..Len(s) : s[k] \notin WhiteSpace}
  IN  IF keep = {} THEN <<>>
      ELSE LET lo == CHOOSE k \in keep : \A j \in keep : k <= j
               hi == CHOOSE k \in keep : \A j \in keep : k >= j
           IN  SubSeq(s, lo, hi)

\* String.prototype.startsWith
StartsWith(s, p) == Len(s) >= Len(p) /\ SubSeq(s, 1, Len(p)) = p

\* String.prototype.indexOf for one character, 1-based, 0 when absent
IndexOf(s, c) ==
  IF \E k \in 1..Len(s) : s[k] = c
    THEN CHOOSE k \in 1..Len(s) : s[k] = c /\ \A j \in 1..(k - 1) : s[j] # c
    ELSE 0

\* String.prototype.slice(from) with a 0-based from, as the code calls it
SliceFrom(s, from) == SubSeq(s, from + 1, Len(s))

\* String.prototype.slice(0, n)
SliceTo(s, n) == SubSeq(s, 1, IF n < Len(s) THEN n ELSE Len(s))

\* String.prototype.split('\n')
RECURSIVE SplitLines(_)
SplitLines(s) ==
  LET k == IndexOf(s, "\n")
  IN  IF k = 0 THEN <<s>>
      ELSE <<SubSeq(s, 1, k - 1)>> \o SplitLines(SubSeq(s, k + 1, Len(s)))

\* Array.prototype.join('\n')
RECURSIVE JoinLines(_)
JoinLines(ls) ==
  IF ls = <<>> THEN <<>>
  ELSE IF Len(ls) = 1 THEN ls[1]
  ELSE ls[1] \o <<"\n">> \o JoinLines(Tail(ls))

(***************************************************************************)
(* JavaScript values, tagged by type.  A finite number is a sign, an       *)
(* integer part and the digits of its decimal fraction (no trailing zero). *)
(***************************************************************************)

Undef == [t |-> "undefined"]
Null == [t |-> "null"]
Bool(b) == [t |-> "bool", b |-> b]
Dec(neg, int, frac) ==
  [t |-> "num", neg |-> neg /\ (int # 0 \/ frac # <<>>), int |-> int, frac |-> frac]
Num(n) == IF n < 0 THEN Dec(TRUE, -n, <<>>) ELSE Dec(FALSE, n, <<>>)
NaN == [t |-> "nan"]
Infinity == [t |-> "inf", neg |-> FALSE]
Str(s) == [t |-> "str", s |-> s]
Arr(items) == [t |-> "arr", items |-> items]
Obj(f) == [t |-> "obj", f |-> f]

\* the object with no own property
EmptyFields == [k \in {} |-> Undef]

\* ToBoolean: what `!v`, `v || d` and `if (v)` test
Truthy(v) ==
  CASE v.t = "undefined" -> FALSE
    [] v.t = "null" -> FALSE
    [] v.t = "bool" -> v.b
    [] v.t = "num" -> v.int # 0 \/ v.frac # <<>>
    [] v.t = "nan" -> FALSE
    [] v.t = "inf" -> TRUE
    [] v.t = "str" -> v.s # <<>>
    [] v.t = "arr" -> TRUE
    [] v.t = "obj" -> TRUE

\* a || b
OrElse(a, b) == IF Truthy(a) THEN a ELSE b

\* typeof v === 'string'
IsString(v) == v.t = "str"

\* Array.isArray(v)
IsArray(v) == v.t = "arr"

\* typeof v === 'object' (null, arrays and objects)
IsObjectType(v) == v.t \in {"null", "arr", "obj"}

\* v.key for a parsed value: undefined unless v is an object with that key
GetProp(v, key) ==
  IF v.t = "obj" /\ key \in DOMAIN v.f THEN v.f[key] ELSE Undef

\* the own enumerable properties `...v` copies: an object's fields, an
\* array's indices, nothing for a primitive
RECURSIVE IndexKey(_)
IndexKey(n) ==
  IF n < 10 THEN DigitSeq[n + 1]
  ELSE IndexKey(n \div 10) \o DigitSeq[(n % 10) + 1]

SpreadFields(v) ==
  CASE v.t = "obj" -> v.f
    [] v.t = "arr" ->
         [k \in {IndexKey(n - 1) : n \in 1..Len(v.items)} |->
            v.items[CHOOSE n \in 1..Len(v.items) : IndexKey(n - 1) = k]]
    [] OTHER -> EmptyFields

\* { ...a, ...b }: the later source wins
Merge(a, b) == b @@ a

\* Number.isFinite(v): no coercion, true only of a finite number
NumberIsFinite(v) == v.t = "num"

\* v > 0 for a number value
Positive(v) ==
  CASE v.t = "num" -> ~v.neg /\ (v.int > 0 \/ v.frac # <<>>)
    [] v.t = "inf" -> ~v.neg
    [] OTHER -> FALSE

\* Math.floor for a finite number
MathFloor(v) ==
  IF v.neg THEN Num(-v.int - (IF v.frac # <<>> THEN 1 ELSE 0)) ELSE Num(v.int)

\* the decimal digits of a natural number
RECURSIVE NatToDigits(_)
NatToDigits(n) ==
  IF n < 10 THEN <<DigitSeq[n + 1]>>
  ELSE NatToDigits(n \div 10) \o <<DigitSeq[(n % 10) + 1]>>

\* the value of a non-empty digit string
RECURSIVE DigitsToNat(_)
DigitsToNat(ds) ==
  IF ds = <<>> THEN 0
  ELSE 10 * DigitsToNat(SubSeq(ds, 1, Len(ds) - 1))
       + (CHOOSE d \in 0..9 : DigitSeq[d + 1] = ds[Len(ds)])

AllDigits(s) == s # <<>> /\ \A k \in 1..Len(s) : s[k] \in Digits

\* `${v}` for a number: what a template literal embeds
NumberToString(v) ==
  CASE v.t = "nan" -> <<"N", "a", "N">>
    [] v.t = "inf" ->
         (IF v.neg THEN <<"-">> ELSE <<>>) \o <<"I", "n", "f", "i", "n", "i", "t", "y">>
    [] v.t = "num" ->
         (IF v.neg THEN <<"-">> ELSE <<>>) \o NatToDigits(v.int)
         \o (IF v.frac # <<>> THEN <<".">> \o v.frac ELSE <<>>)

\* a digit string without its trailing zeros
RECURSIVE StripTrailingZeros(_)
StripTrailingZeros(ds) ==
  IF ds # <<>> /\ ds[Len(ds)] = "0"
    THEN StripTrailingZeros(SubSeq(ds, 1, Len(ds) - 1))
    ELSE ds

\* Number(s) for an unsigned decimal literal without exponent: digits with
\* at most one dot and a digit on one side of it; NaN for anything else
UnsignedToNumber(s) ==
  LET dot == IndexOf(s, ".")
      ip == SubSeq(s, 1, dot - 1)
      fp == SubSeq(s, dot + 1, Len(s))
  IN  IF dot = 0 THEN (IF AllDigits(s) THEN Num(DigitsToNat(s)) ELSE NaN)
      ELSE IF /\ (ip = <<>> \/ AllDigits(ip))
              /\ (fp = <<>> \/ AllDigits(fp))
              /\ (ip # <<>> \/ fp # <<>>)
        THEN Dec(FALSE, DigitsToNat(ip), StripTrailingZeros(fp))
        ELSE NaN

Negate(v) ==
  CASE v.t = "num" -> Dec(~v.neg, v.int, v.frac)
    [] v.t = "inf" -> [t |-> "inf", neg |-> ~v.neg]
    [] OTHER -> v

\* Number(s) for a string: the trimmed text as a signed decimal literal or
\* Infinity; the empty text is 0
StringToNumber(s) ==
  LET w == Trim(s)
      body == IF w # <<>> /\ w[1] \in {"+", "-"} THEN Tail(w) ELSE w
      mag == IF body = <<"I", "n", "f", "i", "n", "i", "t", "y">> THEN Infinity
             ELSE UnsignedToNumber(body)
  IN  IF w = <<>> THEN Num(0)
      ELSE IF w[1] = "-" THEN Negate(mag) ELSE mag

\* Number(v): ToNumber with coercion
ToNumber(v) ==
  CASE v.t = "undefined" -> NaN
    [] v.t = "null" -> Num(0)
    [] v.t = "bool" -> IF v.b THEN Num(1) ELSE Num(0)
    [] v.t = "num" -> v
    [] v.t = "nan" -> v
    [] v.t = "inf" -> v
    [] v.t = "str" -> StringToNumber(v.s)


\* JSON.stringify of a string: quoted, with the characters JSON escapes
RECURSIVE JsonEscape(_)
JsonEscape(s) ==
  IF s = <<>> THEN <<>>
  ELSE (CASE s[1] = "\"" -> <<"\\", "\"">>
          [] s[1] = "\\" -> <<"\\", "\\">>
          [] s[1] = "\n" -> <<"\\", "n">>
          [] s[1] = "\r" -> <<"\\", "r">>
          [] s[1] = "\t" -> <<"\\", "t">>
          [] OTHER -> <<s[1]>>) \o JsonEscape(Tail(s))

JsonStringify(s) == <<"\"">> \o JsonEscape(s) \o <<"\"">>

(***************************************************************************)
(* JSON.parse over the tokens of a completion.  A string token is a quoted *)
(* name; a number token is one digit.                                      *)
(***************************************************************************)

\* the string contents that occur in the completions of the model
JsonNames == {"examples", "tables", "notes", "prompt", "prompts",
              "usedFallback", "text", "x"}

Quote(name) == "\"" \o name \o "\""

IsStringToken(tok) == \E n \in JsonNames : Quote(n) = tok

StringOfToken(tok) == CHOOSE n \in JsonNames : Quote(n) = tok

ParseFail == [ok |-> FALSE, v |-> Undef, i |-> 0]

\* the first position at or after i that holds no white space
RECURSIVE SkipWs(_, _)
SkipWs(toks, i) ==
  IF i <= Len(toks) /\ toks[i] \in WhiteSpace THEN SkipWs(toks, i + 1) ELSE i

RECURSIVE JsonValue(_, _)
RECURSIVE JsonElements(_, _, _)
RECURSIVE JsonMembers(_, _, _)

JsonValue(toks, i0) ==
  LET i == SkipWs(toks, i0)
  IN  IF i > Len(toks) THEN ParseFail
      ELSE LET tok == toks[i]
           IN  CASE tok = "null" -> [ok |-> TRUE, v |-> Null, i |-> i + 1]
                 [] tok = "true" -> [ok |-> TRUE, v |-> Bool(TRUE), i |-> i + 1]
                 [] tok = "false" -> [ok |-> TRUE, v |-> Bool(FALSE), i |-> i + 1]
                 [] tok \in Digits ->
                      [ok |-> TRUE, v |-> Num(DigitsToNat(<<tok>>)), i |-> i + 1]
                 [] IsStringToken(tok) ->
                      [ok |-> TRUE, v |-> Str(<<StringOfToken(tok)>>), i |-> i + 1]
                 [] tok = "[" ->
                      LET j == SkipWs(toks, i + 1)
                      IN  IF j <= Len(toks) /\ toks[j] = "]"
                            THEN [ok |-> TRUE, v |-> Arr(<<>>), i |-> j + 1]
                            ELSE JsonElements(toks, i + 1, <<>>)
                 [] tok = "{" ->
                      LET j == SkipWs(toks, i + 1)
                      IN  IF j <= Len(toks) /\ toks[j] = "}"
                            THEN [ok |-> TRUE, v |-> Obj(EmptyFields), i |-> j + 1]
                            ELSE JsonMembers(toks, i + 1, EmptyFields)
                 [] OTHER -> ParseFail

JsonElements(toks, i, acc) ==
  LET r == JsonValue(toks, i)
      j == SkipWs(toks, r.i)
  IN  IF ~r.ok \/ j > Len(toks) THEN ParseFail
      ELSE IF toks[j] = "," THEN JsonElements(toks, j + 1, Append(acc, r.v))
      ELSE IF toks[j] = "]" THEN [ok |-> TRUE, v |-> Arr(Append(acc, r.v)), i |-> j + 1]
      ELSE ParseFail

JsonMembers(toks, i, acc) ==
  LET k == SkipWs(toks, i)
      c == SkipWs(toks, k + 1)
  IN  IF k > Len(toks) \/ c > Len(toks) THEN ParseFail
      ELSE IF ~IsStringToken(toks[k]) \/ toks[c] # ":" THEN ParseFail
      ELSE LET r == JsonValue(toks, c + 1)
               j == SkipWs(toks, r.i)
               acc2 == (StringOfToken(toks[k]) :> r.v) @@ acc
           IN  IF ~r.ok \/ j > Len(toks) THEN ParseFail
               ELSE IF toks[j] = "," THEN JsonMembers(toks, j + 1, acc2)
               ELSE IF toks[j] = "}" THEN [ok |-> TRUE, v |-> Obj(acc2), i |-> j + 1]
               ELSE ParseFail

\* JSON.parse(text): ok is FALSE where it throws a SyntaxError
JSONParse(text) ==
  LET r == JsonValue(text, 1)
  IN  IF r.ok /\ SkipWs(text, r.i) > Len(text)
        THEN [ok |-> TRUE, v |-> r.v]
        ELSE [ok |-> FALSE, v |-> Undef]

(***************************************************************************)
(* Prompt Template Engine and Fallback Synthesizer.                        *)
(***************************************************************************)

\* what a builder returns: a text, or the Error it throws
Returned(text) == [ok |-> TRUE, text |-> text, error |-> <<>>]
Threw(message) == [ok |-> FALSE, text |-> <<>>, error |-> message]

DefaultCountSingle == 15

DefaultCountTwoAgent == 100

TaglineMax == 120

TaglineKeep == 117

\* the atom that precedes the embedded count in both case-generation prompts
ProduceExactly == "Produce exactly "

ExamplesSuffixSingle == " examples (no more, no less)."

ExamplesSuffixAgent2 == " examples with unique ids and unique text."

NoExamplePlaceholder ==
  <<"(", "n", "o", " ", "e", "x", "a", "m", "p", "l", "e", " ",
    "p", "r", "o", "v", "i", "d", "e", "d", ")">>

\* buildPrompt of the placeholder and fallback revisions (tables schema)
BuildPromptTables(rule, example) ==
  <<"[dataset designer; strict JSON schema: notes, tables]", "\n",
    "Rule to analyse:", "\n">>
  \o Trim(rule)
  \o (IF example # <<>>
        THEN <<"\n", "\n", "Example content provided by the user:", "\n">>
             \o Trim(example)
        ELSE <<>>)
  \o <<"\n", "\n",
       "Focus on realistic moderation scenarios and provide at least two sample rows.">>

\* safeCount of buildPrompt (single-prompt revision)
SafeCountSingle(count) ==
  IF NumberIsFinite(count) /\ Positive(count) THEN count ELSE Num(DefaultCountSingle)

\* buildPrompt of the single-prompt revision (examples schema)
BuildPromptExamples(rule, example, count) ==
  <<"[dataset designer; borderline posts]", "\n", ProduceExactly>>
  \o NumberToString(SafeCountSingle(count))
  \o <<ExamplesSuffixSingle, "\n",
       "[OUTPUT FORMAT: strict JSON, schema examples; INSTRUCTIONS; GUIDELINES]", "\n",
       "Rule to analyze:", "\n">>
  \o Trim(rule)
  \o (IF example # <<>>
        THEN <<"\n", "\n",
               "Example content provided by the user. New examples should be similar in difficulty to moderate:",
               "\n">>
             \o Trim(example)
        ELSE <<>>)
  \o <<"\n", "\n",
       "Focus on realistic moderation scenarios and on producing explicit rationales and metadata for each example.">>

\* requestedCount of /generate (single-prompt revision)
RequestedCount(count) ==
  IF NumberIsFinite(ToNumber(count)) /\ Positive(ToNumber(count))
    THEN ToNumber(count)
    ELSE Num(DefaultCountSingle)

\* buildAgent1Prompt(rule, example = ''): .trim() of a value that is not a
\* string throws a TypeError
BuildAgent1Prompt(rule, example) ==
  LET r == OrElse(rule, Str(<<>>))
      e == OrElse(IF example = Undef THEN Str(<<>>) ELSE example,
                  Str(NoExamplePlaceholder))
  IN  IF ~IsString(r) \/ ~IsString(e)
        THEN Threw(<<"TypeError: trim is not a function">>)
      ELSE IF Trim(r.s) = <<>>
        THEN Threw(<<"buildAgent1Prompt: rule is required">>)
      ELSE Returned(
             <<"[You are AGENT-1 ...]", "\n",
               "RULE CONTEXT (use this verbatim to craft scenarios): ">>
             \o Trim(r.s)
             \o <<"\n",
                  "If an example was provided, match its tone and complexity: - Example (style): ">>
             \o JsonStringify(Trim(e.s))
             \o <<"\n", "[Required guidance for AGENT-2 ...]">>)

\* safeCount of buildAgent2Prompt(agent1Instructions, count = 100)
SafeCountAgent2(count) ==
  LET c == IF count = Undef THEN Num(DefaultCountTwoAgent) ELSE count
  IN  IF NumberIsFinite(c) /\ Positive(c)
        THEN MathFloor(c)
        ELSE Num(DefaultCountTwoAgent)

Agent2Header ==
  <<"[You are AGENT-2 (Testcase Forge); MUST OUTPUT: strict JSON, schema examples]",
    "\n", "Hard requirements:", "\n", "- ", ProduceExactly>>

Agent2Requirements ==
  <<ExamplesSuffixAgent2, "\n",
    "[- Default difficulty 5; - at least 6 obfuscation_type values; - rationale]",
    "\n", "\n",
    "Now follow these additional instructions (these are from AGENT-1):", "\n">>

Agent2Closing ==
  <<"\n", "\n",
    "After you finish, output ONLY the JSON described above. No extra text.">>

\* a builder without the guard on empty instructions
BuildAgent2PromptUnguarded(agent1Instructions, count) ==
  LET a == OrElse(agent1Instructions, Str(<<>>))
  IN  IF ~IsString(a)
        THEN Threw(<<"TypeError: trim is not a function">>)
      ELSE Returned(Agent2Header
                    \o NumberToString(SafeCountAgent2(count))
                    \o Agent2Requirements
                    \o Trim(a.s)
                    \o Agent2Closing)

BuildAgent2Prompt(agent1Instructions, count) ==
  LET a == OrElse(agent1Instructions, Str(<<>>))
  IN  IF ~IsString(a)
        THEN Threw(<<"TypeError: trim is not a function">>)
      ELSE IF Trim(a.s) = <<>>
        THEN Threw(<<"buildAgent2Prompt: agent1Instructions is required">>)
      ELSE Returned(Agent2Header
                    \o NumberToString(SafeCountAgent2(count))
                    \o Agent2Requirements
                    \o Trim(a.s)
                    \o Agent2Closing)

\* shortRule.replace(/\s+/g, ' '): every run of white space becomes one
\* space.  A character is kept when it is no white space or ends a run.
CollapseWhiteSpace(s) ==
  LET kept == {k \in 1..Len(s) :
                 s[k] \notin WhiteSpace \/ k = Len(s) \/ s[k + 1] \notin WhiteSpace}
      nth(i) == CHOOSE k \in kept : Cardinality({j \in kept : j <= k}) = i
  IN  [i \in 1..Cardinality(kept) |->
         IF s[nth(i)] \in WhiteSpace THEN " " ELSE s[nth(i)]]

\* a tagline that keeps TaglineMax characters before the ellipsis
RuleTaglineOverlong(rule) ==
  LET trimmedRule == Trim(rule)
      shortRule == IF Len(trimmedRule) > TaglineMax
                     THEN SliceTo(trimmedRule, TaglineMax) \o <<".", ".", ".">>
                     ELSE trimmedRule
  IN  Trim(CollapseWhiteSpace(shortRule))

\* ruleTagline of createFallbackTables
RuleTagline(rule) ==
  LET trimmedRule == Trim(rule)
      shortRule == IF Len(trimmedRule) > TaglineMax
                     THEN SliceTo(trimmedRule, TaglineKeep) \o <<".", ".", ".">>
                     ELSE trimmedRule
  IN  Trim(CollapseWhiteSpace(shortRule))

FallbackColumns ==
  <<Obj(("name" :> Str(<<"message">>)) @@ ("type" :> Str(<<"text">>))
        @@ ("description" :> Str(<<"User provided text or scenario that should be moderated.">>))),
    Obj(("name" :> Str(<<"decision">>)) @@ ("type" :> Str(<<"enum('allow','review','flag')">>))
        @@ ("description" :> Str(<<"How the moderation system should respond to the content.">>))),
    Obj(("name" :> Str(<<"rationale">>)) @@ ("type" :> Str(<<"text">>))
        @@ ("description" :> Str(<<"Explanation tying the decision back to the moderation rule.">>)))>>

FallbackRow(message, decision, rationale) ==
  Obj(("message" :> Str(message)) @@ ("decision" :> Str(<<decision>>))
      @@ ("rationale" :> Str(<<rationale>>)))

\* createFallbackTables(rule, example): the fields of the payload
CreateFallbackTables(rule, example) ==
  LET ruleTagline == RuleTagline(rule)
      rows ==
        (IF example # <<>>
           THEN <<FallbackRow(example, "review",
                    "User-supplied example queued for validation against the rule.")>>
           ELSE <<>>)
        \o <<FallbackRow(<<"This content intentionally violates the rule: ">>
                           \o ruleTagline \o <<".">>,
                         "flag", "Direct violation crafted to trigger the policy."),
             FallbackRow(<<"Benign message demonstrating compliant behaviour with polite language.">>,
                         "allow", "Does not conflict with the moderation guidance."),
             FallbackRow(<<"Borderline scenario requiring human review to interpret nuance.">>,
                         "review", "Ambiguous tone relative to the policy; needs escalation.")>>
  IN  ("notes" :> Str(<<"Generated locally without calling GPT. [...] Target rule: ">>
                      \o ruleTagline \o <<".">>))
      @@ ("tables" :> Arr(<<Obj(("name" :> Str(<<"moderation_cases">>))
                               @@ ("description" :> Str(<<"Synthetic cases assembled to exercise the requested moderation rule.">>))
                               @@ ("columns" :> Arr(FallbackColumns))
                               @@ ("sampleRows" :> Arr(rows)))>>))

\* the static roster of ./judges, a module whose file is not in the sources
judges ==
  <<[name |-> <<"A", "n", "a">>, role |-> <<"moderator">>, experienceYears |-> Num(5),
     personality |-> <<"strict">>],
    [name |-> <<"B", "o">>, role |-> <<"linguist">>, experienceYears |-> Undef,
     personality |-> <<"lenient">>]>>

\* `${ex?.text ?? ''}` for one testcase
TestcaseText(ex) ==
  LET v == GetProp(ex, "text")
  IN  CASE v.t = "str" -> v.s
        [] v.t \in {"num", "nan", "inf"} -> NumberToString(v)
        [] OTHER -> <<>>

RECURSIVE JudgeProfileLines(_)
JudgeProfileLines(js) ==
  IF js = <<>> THEN <<>>
  ELSE LET j == js[1]
           exp == IF j.experienceYears.t = "num" /\ Positive(j.experienceYears)
                    THEN NumberToString(j.experienceYears) \o <<" years">>
                    ELSE <<"relevant experience">>
       IN  j.name \o <<" (">> \o j.role \o <<", ">> \o exp \o <<"): ">> \o j.personality
           \o (IF Len(js) > 1 THEN <<"\n">> ELSE <<>>)
           \o JudgeProfileLines(Tail(js))

RECURSIVE TestcaseLines(_, _)
TestcaseLines(examples, idx) ==
  IF idx > Len(examples) THEN <<>>
  ELSE <<"Testcase ">> \o NatToDigits(idx) \o <<": ">> \o TestcaseText(examples[idx])
       \o (IF idx < Len(examples) THEN <<"\n">> ELSE <<>>)
       \o TestcaseLines(examples, idx + 1)

\* buildJudgeSummaryPrompt(rule, examples, serverContext = ''); the
\* single-prompt revision has no serverContext and no context paragraph
BuildJudgeSummaryPrompt(rule, examples, serverContext, hasContext) ==
  LET list == IF IsArray(examples) THEN examples.items ELSE <<>>
      ctx == OrElse(IF serverContext = Undef THEN Str(<<>>) ELSE serverContext, Str(<<>>))
  IN  IF hasContext /\ ~IsString(ctx)
        THEN Threw(<<"TypeError: trim is not a function">>)
      ELSE Returned(
        <<"[coordinating five judges; GOAL; MANDATES; OUTPUT FORMAT; DEFAULTS]", "\n",
          "JUDGE PROFILES (do not modify):", "\n">>
        \o JudgeProfileLines(judges)
        \o <<"\n", "\n", "Rule to consider:", "\n">> \o rule
        \o <<"\n", "\n">>
        \o (IF ~hasContext THEN <<>>
            ELSE IF Trim(ctx.s) # <<>>
              THEN <<"Server / community context (use this to calibrate strictness, but do not override the rule):",
                     "\n">> \o Trim(ctx.s) \o <<"\n", "\n", "\n">>
              ELSE <<"Server / community context: (none provided)", "\n", "\n", "\n">>)
        \o <<"Testcases:", "\n">>
        \o TestcaseLines(list, 1)
        \o (IF hasContext THEN <<>>
            ELSE <<"\n", "\n",
                   "Important: Keep output plain text only and follow the pattern exactly. [...]">>))

(***************************************************************************)
(* The request handlers.  A handler runs from the request to its first     *)
(* await, and from each completion to the next await or to the response:   *)
(* each such segment is one operator, which either replies or issues one   *)
(* upstream call.                                                          *)
(***************************************************************************)

NoResponse == [status |-> 0, body |-> EmptyFields]

NoCall == [stage |-> "none", prompt |-> <<>>]

Reply(status, fields) ==
  [kind |-> "reply", res |-> [status |-> status, body |-> fields],
   call |-> NoCall, keep |-> <<>>]

Await(stage, prompt, keep) ==
  [kind |-> "await", res |-> NoResponse,
   call |-> [stage |-> stage, prompt |-> prompt], keep |-> keep]

ErrorFields(message) == "error" :> Str(message)

\* the message of whatever the OpenAI client throws
UpstreamErrorMessage == <<"upstream request failed">>

\* the message of the SyntaxError JSON.parse throws
SyntaxErrorMessage == <<"SyntaxError: not valid JSON">>

\* a validation that forgets the trim: !rule || typeof rule !== 'string'
RuleInvalidUntrimmed(rule) == ~Truthy(rule) \/ ~IsString(rule)

\* !rule || typeof rule !== 'string' || !rule.trim()
RuleInvalid(rule) == ~Truthy(rule) \/ ~IsString(rule) \/ Trim(rule.s) = <<>>

\* !Array.isArray(examples) || !examples.length
ExamplesInvalid(examples) == ~IsArray(examples) \/ Len(examples.items) = 0

\* typeof example === 'string' ? example.trim() : ''
ExampleArg(example) == IF IsString(example) THEN Trim(example.s) ELSE <<>>

\* content?.trim(): undefined when the completion carries no content
TrimmedContent(out) ==
  IF out.content.t = "str" THEN Str(Trim(out.content.s)) ELSE Undef

RuleRequired == ErrorFields(<<"The \"rule\" field is required.">>)

(* -------- placeholder revision (unnamed/part_002) -------- *)

PlaceholderGenerate(b) ==
  IF RuleInvalid(b.rule) THEN Reply(400, RuleRequired)
  ELSE LET trimmedRule == Trim(b.rule.s)
           prompt == BuildPromptTables(trimmedRule, ExampleArg(b.example))
           payload == CreateFallbackTables(trimmedRule, ExampleArg(b.example))
       IN  Reply(200, Merge(Merge("prompt" :> Str(prompt), payload),
                            "usedFallback" :> Bool(TRUE)))

(* -------- fallback revision (server.js 1-166) -------- *)

\* a no-credential branch that flags the fallback and gives no reason
FallbackGenerateUnflagged(b, client) ==
  IF RuleInvalid(b.rule) THEN Reply(400, RuleRequired)
  ELSE LET trimmedRule == Trim(b.rule.s)
           prompt == BuildPromptTables(trimmedRule, ExampleArg(b.example))
           payload == CreateFallbackTables(trimmedRule, ExampleArg(b.example))
       IN  IF ~client
             THEN Reply(200, Merge(Merge("prompt" :> Str(prompt), payload),
                                   "usedFallback" :> Bool(TRUE)))
             ELSE Await("responses", prompt, <<>>)

FallbackGenerate(b, client) ==
  IF RuleInvalid(b.rule) THEN Reply(400, RuleRequired)
  ELSE LET trimmedRule == Trim(b.rule.s)
           prompt == BuildPromptTables(trimmedRule, ExampleArg(b.example))
           payload == CreateFallbackTables(trimmedRule, ExampleArg(b.example))
       IN  IF ~client
             THEN Reply(200,
                    Merge(Merge(Merge("prompt" :> Str(prompt), payload),
                                "usedFallback" :> Bool(TRUE)),
                          "fallbackReason" :> Str(<<"OPENAI_API_KEY not set on the server.">>)))
             ELSE Await("responses", prompt, <<>>)

\* the catch block of the fallback revision
FallbackCatch(b, prompt, message) ==
  LET payload == CreateFallbackTables(Trim(b.rule.s), ExampleArg(b.example))
  IN  Reply(200,
        Merge(Merge(Merge(Merge("prompt" :> Str(prompt), payload),
                          "usedFallback" :> Bool(TRUE)),
                    "fallbackReason" :>
                      Str(<<"OpenAI request failed; served deterministic content.">>)),
              "openAiError" :> Str(message)))

\* !parsed || typeof parsed !== 'object' || !parsed.tables
FallbackShapeBad(parsed) ==
  ~Truthy(parsed) \/ ~IsObjectType(parsed) \/ ~Truthy(GetProp(parsed, "tables"))

FallbackGenerateResume(b, prompt, out) ==
  IF out.kind = "throw" THEN FallbackCatch(b, prompt, UpstreamErrorMessage)
  ELSE LET output == IF IsString(out.content) THEN Trim(out.content.s) ELSE <<>>
           r == JSONParse(output)
           parsed == IF output # <<>> THEN r.v ELSE Null
       IN  IF output # <<>> /\ ~r.ok THEN FallbackCatch(b, prompt, SyntaxErrorMessage)
           ELSE IF FallbackShapeBad(parsed)
             THEN FallbackCatch(b, prompt, <<"Response missing expected JSON shape">>)
           ELSE Reply(200, Merge(Merge("prompt" :> Str(prompt), SpreadFields(parsed)),
                                 "usedFallback" :> Bool(FALSE)))

(* -------- single-prompt revision (server.js 168-453) -------- *)

SinglePrompt(b) ==
  BuildPromptExamples(Trim(b.rule.s), ExampleArg(b.example), RequestedCount(b.count))

SingleGenerate(b, client) ==
  IF RuleInvalid(b.rule) THEN Reply(400, RuleRequired)
  ELSE IF ~client
    THEN Reply(500, ErrorFields(
           <<"OPENAI_API_KEY not set on the server. Please configure the API key to generate content.">>))
  ELSE Await("generate", SinglePrompt(b), <<>>)

SingleGenerateCatch(prompt, message) ==
  Reply(500, Merge(Merge(ErrorFields(<<"Failed to generate content from OpenAI">>),
                         "details" :> Str(message)),
                   "prompt" :> Str(prompt)))

SingleGenerateResume(prompt, out) ==
  IF out.kind = "throw" THEN SingleGenerateCatch(prompt, UpstreamErrorMessage)
  ELSE LET primaryText == OrElse(out.content, Str(<<>>))
           r == JSONParse(primaryText.s)
       IN  IF ~Truthy(primaryText)
             THEN SingleGenerateCatch(prompt, <<"Empty response from OpenAI">>)
           ELSE IF ~r.ok THEN SingleGenerateCatch(prompt, SyntaxErrorMessage)
           ELSE IF ~Truthy(r.v) \/ ~IsObjectType(r.v)
             THEN SingleGenerateCatch(prompt, <<"Invalid JSON response from OpenAI">>)
           ELSE Reply(200, Merge("prompt" :> Str(prompt), SpreadFields(r.v)))

\* the roster as the response carries it
JudgesValue ==
  Arr([k \in 1..Len(judges) |->
        Obj(("name" :> Str(judges[k].name)) @@ ("role" :> Str(judges[k].role))
            @@ ("experienceYears" :> judges[k].experienceYears)
            @@ ("personality" :> Str(judges[k].personality)))])

SingleEvaluate(b, client) ==
  IF RuleInvalid(b.rule) THEN Reply(400, RuleRequired)
  ELSE IF ExamplesInvalid(b.examples)
    THEN Reply(400, ErrorFields(<<"At least one testcase is required for evaluation.">>))
  ELSE IF ~client
    THEN Reply(500, ErrorFields(
           <<"OPENAI_API_KEY not set on the server. Please configure the API key to run evaluations.">>))
  ELSE Await("judge",
             BuildJudgeSummaryPrompt(Trim(b.rule.s), b.examples, Undef, FALSE).text, <<>>)

\* an /evaluate that answers an empty report as a success with the roster
EvaluateResumeLenient(out, failure) ==
  IF out.kind = "throw"
    THEN Reply(500, Merge(ErrorFields(failure), "details" :> Str(UpstreamErrorMessage)))
  ELSE Reply(200, ("judges" :> JudgesValue)
                  @@ ("judgeSummary" :> OrElse(TrimmedContent(out), Str(<<>>))))

\* runJudgeSummary after its await, and the rest of /evaluate
EvaluateResume(out, failure) ==
  IF out.kind = "throw"
    THEN Reply(500, Merge(ErrorFields(failure), "details" :> Str(UpstreamErrorMessage)))
  ELSE IF ~Truthy(TrimmedContent(out))
    THEN Reply(500, Merge(ErrorFields(failure),
                          "details" :> Str(<<"Empty response from judge summary">>)))
  ELSE Reply(200, ("judges" :> JudgesValue) @@ ("judgeSummary" :> TrimmedContent(out)))

SingleEvaluateResume(out) ==
  EvaluateResume(out, <<"Failed to evaluate testcases with judges">>)

(* -------- two-agent revision (server.js 455-769) -------- *)

TwoAgentGenerate(b, client) ==
  IF RuleInvalid(b.rule) THEN Reply(400, RuleRequired)
  ELSE IF ~client THEN Reply(500, ErrorFields(<<"OPENAI_API_KEY not set.">>))
  ELSE LET agent1Input == BuildAgent1Prompt(b.rule, OrElse(b.example, Str(<<>>)))
       IN  IF ~agent1Input.ok THEN Reply(500, ErrorFields(agent1Input.error))
           ELSE Await("agent1", agent1Input.text, <<>>)

\* a handler that goes on to AGENT-2 with the rule when AGENT-1 gave no text
TwoAgentAgent1ResumeUnchecked(b, out) ==
  IF out.kind = "throw" THEN Reply(500, ErrorFields(UpstreamErrorMessage))
  ELSE LET agent1Text == OrElse(TrimmedContent(out), Str(Trim(b.rule.s)))
           agent2Input == BuildAgent2Prompt(agent1Text, OrElse(b.count, Num(DefaultCountTwoAgent)))
       IN  IF ~agent2Input.ok THEN Reply(500, ErrorFields(agent2Input.error))
           ELSE Await("agent2", agent2Input.text, agent1Text.s)

TwoAgentAgent1Resume(b, out) ==
  IF out.kind = "throw" THEN Reply(500, ErrorFields(UpstreamErrorMessage))
  ELSE LET agent1Text == TrimmedContent(out)
           agent2Input == BuildAgent2Prompt(agent1Text, OrElse(b.count, Num(DefaultCountTwoAgent)))
       IN  IF ~Truthy(agent1Text)
             THEN Reply(500, ErrorFields(<<"Empty response from Agent1">>))
           ELSE IF ~agent2Input.ok THEN Reply(500, ErrorFields(agent2Input.error))
           ELSE Await("agent2", agent2Input.text, agent1Text.s)

\* a handler that asks AGENT-2 again when its call threw
TwoAgentAgent2ResumeRetrying(agent1Input, agent2Input, out) ==
  IF out.kind = "throw" THEN Await("agent2", agent2Input, <<>>)
  ELSE LET agent2Text == TrimmedContent(out)
           r == JSONParse(agent2Text.s)
       IN  IF ~Truthy(agent2Text)
             THEN Reply(500, ErrorFields(<<"Empty response from Agent2">>))
           ELSE IF ~r.ok THEN Reply(500, ErrorFields(SyntaxErrorMessage))
           ELSE IF ~Truthy(r.v) \/ ~IsArray(GetProp(r.v, "examples"))
             THEN Reply(500, ErrorFields(<<"Agent2 output missing examples array">>))
           ELSE Reply(200,
                  Merge("prompts" :> Obj(("agent1" :> Str(agent1Input))
                                         @@ ("agent2" :> Str(agent2Input))),
                        SpreadFields(r.v)))

TwoAgentAgent2Resume(agent1Input, agent2Input, out) ==
  IF out.kind = "throw" THEN Reply(500, ErrorFields(UpstreamErrorMessage))
  ELSE LET agent2Text == TrimmedContent(out)
           r == JSONParse(agent2Text.s)
       IN  IF ~Truthy(agent2Text)
             THEN Reply(500, ErrorFields(<<"Empty response from Agent2">>))
           ELSE IF ~r.ok THEN Reply(500, ErrorFields(SyntaxErrorMessage))
           ELSE IF ~Truthy(r.v) \/ ~IsArray(GetProp(r.v, "examples"))
             THEN Reply(500, ErrorFields(<<"Agent2 output missing examples array">>))
           ELSE Reply(200,
                  Merge("prompts" :> Obj(("agent1" :> Str(agent1Input))
                                         @@ ("agent2" :> Str(agent2Input))),
                        SpreadFields(r.v)))

TwoAgentEvaluate(b, client) ==
  IF RuleInvalid(b.rule) THEN Reply(400, RuleRequired)
  ELSE IF ExamplesInvalid(b.examples)
    THEN Reply(400, ErrorFields(<<"At least one testcase is required for evaluation.">>))
  ELSE IF ~client THEN Reply(500, ErrorFields(<<"OPENAI_API_KEY not set on the server.">>))
  ELSE LET prompt == BuildJudgeSummaryPrompt(Trim(b.rule.s), b.examples, b.serverContext, TRUE)
       IN  IF ~prompt.ok
             THEN Reply(500, Merge(ErrorFields(<<"Failed to evaluate testcases">>),
                                   "details" :> Str(prompt.error)))
             ELSE Await("judge", prompt.text, <<>>)

TwoAgentEvaluateResume(out) == EvaluateResume(out, <<"Failed to evaluate testcases">>)

(***************************************************************************)
(* parseJudgeSummary (frontend/src/main.js).                               *)
(***************************************************************************)

\* the end of the run of characters of class cls that starts at i
RECURSIVE SkipClass(_, _, _)
SkipClass(s, i, cls) ==
  IF i <= Len(s) /\ s[i] \in cls THEN SkipClass(s, i + 1, cls) ELSE i

\* the characters the regex `.` does not match
LineTerminators == {"\n", "\r"}

TestcaseWord == <<"t", "e", "s", "t", "c", "a", "s", "e">>

JudgeColon == <<"j", "u", "d", "g", "e", ":">>

NoMatch == [ok |-> FALSE, id |-> <<>>, pct |-> <<>>, rest |-> <<>>]

\* line.match(/^-?\s*Testcase\s+(\d+):\s*([\d.]+)%\s*-\s*(.+)$/i): the three
\* groups.  Every quantifier is followed by a character outside its class,
\* so the greedy match is the only one.
VerdictMatch(line) ==
  LET p1 == IF line # <<>> /\ line[1] = "-" THEN 2 ELSE 1
      p2 == SkipWs(line, p1)
      p3 == p2 + Len(TestcaseWord)
      p4 == SkipWs(line, p3)
      p5 == SkipClass(line, p4, Digits)
      p6 == SkipWs(line, p5 + 1)
      p7 == SkipClass(line, p6, Digits \cup {"."})
      p8 == SkipWs(line, p7 + 1)
      p9 == SkipWs(line, p8 + 1)
  IN  IF /\ p3 - 1 <= Len(line)
         /\ ToLowerCase(SubSeq(line, p2, p3 - 1)) = TestcaseWord
         /\ p4 > p3
         /\ p5 > p4
         /\ p5 <= Len(line) /\ line[p5] = ":"
         /\ p7 > p6
         /\ p7 <= Len(line) /\ line[p7] = "%"
         /\ p8 <= Len(line) /\ line[p8] = "-"
         /\ p9 <= Len(line)
         /\ \A k \in p9..Len(line) : line[k] \notin LineTerminators
        THEN [ok |-> TRUE, id |-> SubSeq(line, p4, p5 - 1),
              pct |-> SubSeq(line, p6, p7 - 1), rest |-> SubSeq(line, p9, Len(line))]
        ELSE NoMatch

\* a verdict whose captures are stored without Number(...)
VerdictOfUnconverted(line) ==
  LET verdictMatch == VerdictMatch(line)
  IN  IF verdictMatch.ok
        THEN [testcaseId |-> Str(verdictMatch.id),
              percentage |-> Str(verdictMatch.pct),
              rationale |-> Trim(verdictMatch.rest)]
        ELSE [testcaseId |-> Null, percentage |-> Null, rationale |-> line]

\* the verdict pushed for a line under the current judge
VerdictOf(line) ==
  LET verdictMatch == VerdictMatch(line)
  IN  IF verdictMatch.ok
        THEN [testcaseId |-> Num(DigitsToNat(verdictMatch.id)),
              percentage |-> UnsignedToNumber(verdictMatch.pct),
              rationale |-> Trim(verdictMatch.rest)]
        ELSE [testcaseId |-> Null, percentage |-> Null, rationale |-> line]

\* line.toLowerCase().startsWith('judge:')
IsJudgeHeader(line) == StartsWith(ToLowerCase(line), JudgeColon)

\* line.slice(line.indexOf(':') + 1).trim()
HeaderName(line) == Trim(SliceFrom(line, IndexOf(line, ":")))

\* an iteration that skips the lines the verdict pattern does not match
ParseLineStepDropping(st, rawLine) ==
  LET line == Trim(rawLine)
  IN  IF line = <<>> THEN st
      ELSE IF IsJudgeHeader(line)
        THEN IF HeaderName(line) # <<>>
               THEN [judgesData |-> Append(st.judgesData,
                                     [name |-> HeaderName(line), verdicts |-> <<>>]),
                     currentJudge |-> Len(st.judgesData) + 1]
               ELSE st
      ELSE IF st.currentJudge = 0 \/ ~VerdictMatch(line).ok THEN st
      ELSE [st EXCEPT !.judgesData[st.currentJudge].verdicts = Append(@, VerdictOf(line))]

\* an iteration that opens an unnamed record for a line met before any header
ParseLineStepAnonymous(st, rawLine) ==
  LET line == Trim(rawLine)
  IN  IF line = <<>> THEN st
      ELSE IF IsJudgeHeader(line)
        THEN IF HeaderName(line) # <<>>
               THEN [judgesData |-> Append(st.judgesData,
                                     [name |-> HeaderName(line), verdicts |-> <<>>]),
                     currentJudge |-> Len(st.judgesData) + 1]
               ELSE st
      ELSE IF st.currentJudge = 0
        THEN [judgesData |-> Append(st.judgesData,
                              [name |-> <<>>, verdicts |-> <<VerdictOf(line)>>]),
              currentJudge |-> Len(st.judgesData) + 1]
      ELSE [st EXCEPT !.judgesData[st.currentJudge].verdicts = Append(@, VerdictOf(line))]

\* one iteration of the forEach: st holds judgesData and currentJudge,
\* the position in judgesData of the record currentJudge refers to (0: null)
ParseLineStep(st, rawLine) ==
  LET line == Trim(rawLine)
  IN  IF line = <<>> THEN st
      ELSE IF IsJudgeHeader(line)
        THEN IF HeaderName(line) # <<>>
               THEN [judgesData |-> Append(st.judgesData,
                                     [name |-> HeaderName(line), verdicts |-> <<>>]),
                     currentJudge |-> Len(st.judgesData) + 1]
               ELSE st
      ELSE IF st.currentJudge = 0 THEN st
      ELSE [st EXCEPT !.judgesData[st.currentJudge].verdicts = Append(@, VerdictOf(line))]

RECURSIVE ParseLines(_, _)
ParseLines(st, ls) ==
  IF ls = <<>> THEN st ELSE ParseLines(ParseLineStep(st, ls[1]), Tail(ls))

\* parseJudgeSummary(summaryText)
ParseJudgeSummary(summaryText) ==
  IF summaryText = <<>> THEN <<>>
  ELSE ParseLines([judgesData |-> <<>>, currentJudge |-> 0],
                  SplitLines(summaryText)).judgesData

(* -------- the page: handleGenerate after fetch resolved (main.js 258-303) -------- *)

Paragraph(text) == [kind |-> "p", text |-> text]

Heading(text) == [kind |-> "h3", text |-> Str(<<text>>)]

JudgeSummaryUnavailable ==
  Paragraph(Str(<<"Judge summary was unavailable. Check the server logs for details.">>))

\* the catch block: both panels report the failure
GenerateFailedView ==
  [result |-> [placeholder |-> "",
               nodes |-> <<Paragraph(Str(<<"Something went wrong while generating the dataset.">>))>>],
   dataset |-> [placeholder |-> "Unable to generate dataset.", nodes |-> <<>>]]

\* createJudgeRoster and createTableElement read a property of each item
\* and throw on null or undefined
AnyNullish(items) == \E k \in 1..Len(items) : items[k].t \in {"null", "undefined"}

\* what the page shows for the response r of /generate
GenerateResponseView(r) ==
  LET payload == Obj(r.body)
      notes == GetProp(payload, "notes")
      roster == GetProp(payload, "judges")
      tables == GetProp(payload, "tables")
      hasRoster == IsArray(roster) /\ Len(roster.items) > 0
      hasTables == IsArray(tables) /\ Len(tables.items) > 0
      judgeSummaryText == IF IsString(GetProp(payload, "judgeSummary"))
                            THEN Trim(GetProp(payload, "judgeSummary").s) ELSE <<>>
      summaryNodes ==
        (IF Truthy(notes) THEN <<Paragraph(notes)>> ELSE <<>>)
        \o (IF Truthy(GetProp(payload, "usedFallback"))
              THEN <<[kind |-> "fallback-note",
                      text |-> Str(<<"Fallback dataset used (no live GPT response).">>)]>>
              ELSE <<>>)
        \o (IF hasRoster
              THEN <<Heading("Judge Panel"), [kind |-> "judge-roster", text |-> roster]>>
              ELSE <<>>)
        \o (IF judgeSummaryText # <<>>
              THEN <<Heading("Judge Summary"),
                     [kind |-> IF ParseJudgeSummary(judgeSummaryText) = <<>>
                                 THEN "pre" ELSE "judge-summary-grid",
                      text |-> Str(judgeSummaryText)]>>
              ELSE <<JudgeSummaryUnavailable>>)
  IN  IF r.status \notin 200..299 THEN GenerateFailedView
      ELSE IF hasRoster /\ AnyNullish(roster.items) THEN GenerateFailedView
      ELSE IF hasTables /\ AnyNullish(tables.items) THEN GenerateFailedView
      ELSE [result |-> [placeholder |-> "", nodes |-> summaryNodes],
            dataset |->
              IF hasTables
                THEN [placeholder |-> "",
                      nodes |-> [k \in 1..Len(tables.items) |->
                                   [kind |-> "dataset-table", text |-> tables.items[k]]]]
                ELSE [placeholder |-> "No dataset information was returned.",
                      nodes |-> <<>>]]

(***************************************************************************)
(* Inputs: request bodies, and what the completion service may return.     *)
(***************************************************************************)

\* the completions a generation call may carry, as JSON tokens
GenEmptyText == <<>>

GenBlankText == <<" ", "\n">>

GenProse == <<"Sorry">>

GenTruncated == <<"{", Quote("examples"), ":", "[", "1", ",">>

GenNull == <<"null">>

GenBareArray == <<"[", "1", "]">>

GenBareString == <<Quote("x")>>

GenNoDataset == <<"{", Quote("notes"), ":", Quote("x"), "}">>

GenExamplesString == <<"{", Quote("examples"), ":", Quote("x"), "}">>

GenExamplesEmpty == <<"{", Quote("examples"), ":", "[", "]", "}">>

GenExamplesTwo == <<" ", "{", Quote("examples"), ":", "[", "{", Quote("text"), ":", Quote("x"), "}", ",", " ", "2", "]", "}", "\n">>

GenExamplesOverride == <<"{", Quote("prompt"), ":", Quote("x"), ",", Quote("prompts"), ":", Quote("x"), ",", Quote("usedFallback"), ":", "true", ",", Quote("examples"), ":", "[", "1", "]", "}">>

GenTablesString == <<"{", Quote("tables"), ":", Quote("x"), "}">>

GenTablesEmpty == <<"{", Quote("tables"), ":", "[", "]", "}">>

GenTablesOne == <<"{", Quote("notes"), ":", Quote("x"), ",", Quote("tables"), ":", "[", "{", Quote("x"), ":", "1", "}", "]", "}">>

GenTablesOverride == <<"{", Quote("prompt"), ":", Quote("x"), ",", Quote("usedFallback"), ":", "true", ",", Quote("tables"), ":", "[", "{", Quote("x"), ":", "1", "}", "]", "}">>

GenTexts ==
  {GenEmptyText, GenBlankText, GenProse, GenTruncated,
   GenNull, GenBareArray, GenBareString, GenNoDataset,
   GenExamplesString, GenExamplesEmpty, GenExamplesTwo, GenExamplesOverride,
   GenTablesString, GenTablesEmpty, GenTablesOne, GenTablesOverride}

\* the instruction blocks AGENT-1 may return
Agent1Texts ==
  {<<>>, <<" ", "\n">>, <<"g", "o">>, <<" ", "a", "\n", "b", " ", "\n">>}

\* the judge reports the judge call may return
JudgeReportTexts ==
  {<<>>, <<"\n", " ">>, <<"J", "u", "d", "g", "e", ":", " ", "A", "n", "a", "\n", "-", " ", "T", "e", "s", "t", "c", "a", "s", "e", " ", "1", ":", " ", "7", "2", "%", " ", "-", " ", "o", "k", "\n">>}

\* a call either throws, or returns a completion whose content is a string
\* or is missing
Outcomes(texts) ==
  {[kind |-> "throw", content |-> Undef], [kind |-> "ok", content |-> Undef]}
  \cup {[kind |-> "ok", content |-> Str(t)] : t \in texts}

RuleValues ==
  {Undef, Num(7), Str(<<>>), Str(<<" ", "\t">>), Str(<<"n", "o">>), Str(<<" ", "b", "e", " ", " ", "k", "i", "n", "d", "\n">>)}

ExampleValues ==
  {Undef, Null, Num(3), Str(<<>>), Str(<<" ">>), Str(<<"h", "i", " ">>)}

CountValues ==
  {Undef, Null, Num(0), Num(-2), Num(2), Dec(FALSE, 0, <<"5">>), Dec(FALSE, 2, <<"5">>),
   Infinity, Bool(TRUE), Str(<<>>), Str(<<"a", "b", "c">>), Str(<<"3">>)}

Testcase1 == Obj("text" :> Str(<<"y", "o">>))

ExamplesValues ==
  {Undef, Str(<<"x">>), Arr(<<>>), Arr(<<Testcase1>>), Arr(<<Testcase1, Null>>)}

ServerContextValues == {Undef, Num(1), Str(<<" ">>), Str(<<"c">>)}

NoBody ==
  [rule |-> Undef, example |-> Undef, count |-> Undef,
   examples |-> Undef, serverContext |-> Undef, testcases |-> Undef]

\* the bodies of POST /generate; counts is the set of count values sent
GenerateBodies(counts) ==
  {[NoBody EXCEPT !.rule = r, !.example = e, !.count = c] :
     r \in RuleValues, e \in ExampleValues, c \in counts}

\* the bodies of POST /evaluate
EvaluateBodies ==
  {[NoBody EXCEPT !.rule = r, !.examples = x, !.serverContext = c] :
     r \in RuleValues, x \in ExamplesValues, c \in ServerContextValues}

(***************************************************************************)
(* The lines a judge report is made of.                                    *)
(***************************************************************************)

MaxLines == 3

\* 'Judge: <Name>'
RenderHeader(name) == <<"J", "u", "d", "g", "e", ":", " ">> \o name

\* '- Testcase <N>: <P>% - <rest>'
RenderVerdict(n, pct, rest) ==
  <<"-", " ", "T", "e", "s", "t", "c", "a", "s", "e", " ">> \o NatToDigits(n)
  \o <<":", " ">> \o NumberToString(pct) \o <<"%", " ", "-", " ">> \o rest

\* the well-formed headers and verdict lines of the reports, by content
WellFormedHeaders == {[name |-> <<"A", "n", "a">>]}

WellFormedVerdicts ==
  {[testcaseId |-> 1, percentage |-> Num(72), rationale |-> <<"c", "l", "e", "a", "r", " ", "m", "a", "t", "c", "h">>],
   [testcaseId |-> 2, percentage |-> Num(15), rationale |-> <<"n", "o", " ", "m", "a", "t", "c", "h">>]}

\* lines that drift from the format
DriftLines ==
  {<<"J", "U", "D", "G", "E", ":", " ", " ", "B", "o", " ">>, <<"J", "u", "d", "g", "e", ":">>, <<" ", "t", "e", "s", "t", "c", "a", "s", "e", " ", "0", "3", ":", "7", ".", "5", "%", "-", "x", " ", "-", " ", "y", "\r">>, <<"-", " ", "w", "e", "i", "r", "d", " ", "f", "o", "r", "m", "a", "t">>, <<"-", " ", "T", "e", "s", "t", "c", "a", "s", "e", " ", "4", ":", " ", "2", "5", "0", "%", " ", "-", " ", "b", "i", "g">>, <<" ", "n", "b", "\r">>, <<"T", "e", "s", "t", "c", "a", "s", "e", " ", "5", ":", ".", ".", "%", "-", "n">>, <<" ", "\t">>}

LinePool ==
  {RenderHeader(h.name) : h \in WellFormedHeaders}
  \cup {RenderVerdict(v.testcaseId, v.percentage, v.rationale) : v \in WellFormedVerdicts}
  \cup DriftLines

\* the sequences of at most n lines of the pool
RECURSIVE LineSeqs(_)
LineSeqs(n) ==
  IF n = 0 THEN {<<>>}
  ELSE LET shorter == LineSeqs(n - 1)
       IN  shorter \cup {Append(ls, l) : ls \in {q \in shorter : Len(q) = n - 1}, l \in LinePool}

SummaryTexts == {JoinLines(ls) : ls \in LineSeqs(MaxLines)}

(***************************************************************************)
(* State.                                                                  *)
(***************************************************************************)

VARIABLES
  rev,           \* the server revision deployed
  openaiClient,  \* whether OPENAI_API_KEY configured a client
  endpoint,      \* the route of the request being served
  body,          \* req.body
  pc,            \* idle, the stage whose completion is awaited, or done
  calls,         \* the upstream calls issued for the request, in order
  returned,      \* what the completion service answered to each call
  agent1Text,    \* the handler's local kept across the AGENT-2 await
  res,           \* the response sent
  summaryText,   \* the argument of parseJudgeSummary
  ppc,           \* start, loop or done
  lineNo,        \* the forEach position
  judgesData,    \* the records collected
  currentJudge,  \* the position in judgesData of the open record, 0 for null
  invocation,    \* a direct call of a pure function: its name and arguments
  outcome,       \* what that call returned or threw
  testcases,     \* the rows of table testcases of db.db, in rowid order
  closedAt,      \* -1 while the client is connected, else Len(calls) when it left
  resultPanel,   \* #result-panel of the page
  datasetPanel,  \* #dataset-panel of the page
  generateButton,\* #generate: whether it is disabled, and its label
  fetches,       \* the /generate requests the page started, in order
  shown          \* the position in fetches of the request the panels show, 0 for none

serverVars == <<rev, openaiClient, endpoint, body, pc, calls, returned, agent1Text, res>>

parserVars == <<summaryText, ppc, lineNo, judgesData, currentJudge>>

builderVars == <<invocation, outcome>>

pageVars == <<resultPanel, datasetPanel, generateButton, fetches, shown>>

vars == <<serverVars, parserVars, builderVars, testcases, closedAt, pageVars>>

Revisions == {"placeholder", "fallback", "single", "twoagent"}

ServerInit ==
  /\ rev \in Revisions
  /\ openaiClient \in (IF rev = "placeholder" THEN {FALSE} ELSE BOOLEAN)
  /\ endpoint = "none"
  /\ body = NoBody
  /\ pc = "idle"
  /\ calls = <<>>
  /\ returned = <<>>
  /\ agent1Text = <<>>
  /\ res = NoResponse

ParserIdle ==
  /\ summaryText = <<>>
  /\ ppc = "idle"
  /\ lineNo = 0
  /\ judgesData = <<>>
  /\ currentJudge = 0

NoInvocation == [fn |-> "none", args |-> <<>>]

NoOutcome == [kind |-> "none"]

BuilderIdle ==
  /\ invocation = NoInvocation
  /\ outcome = NoOutcome

\* a panel as the page loads it
EmptyPanel == [placeholder |-> "", nodes |-> <<>>]

\* the button as the page loads it and as the finally block leaves it
ButtonReady == [disabled |-> FALSE, label |-> "Generate"]

PageIdle ==
  /\ resultPanel = EmptyPanel
  /\ datasetPanel = EmptyPanel
  /\ generateButton = ButtonReady
  /\ fetches = <<>>
  /\ shown = 0

ClientConnected == closedAt = -1

Init ==
  /\ ServerInit
  /\ ParserIdle
  /\ BuilderIdle
  /\ testcases = <<>>
  /\ ClientConnected
  /\ PageIdle

\* a handler segment's effect: the response, or one more call in flight
Apply(step) ==
  /\ pc' = IF step.kind = "reply" THEN "done" ELSE step.call.stage
  /\ res' = step.res
  /\ calls' = IF step.kind = "await" THEN Append(calls, step.call) ELSE calls
  /\ agent1Text' = IF step.kind = "await" /\ step.call.stage = "agent2"
                     THEN step.keep ELSE agent1Text

Request(e, b, step) ==
  /\ pc = "idle"
  /\ endpoint' = e
  /\ body' = b
  /\ Apply(step)
  /\ UNCHANGED <<rev, openaiClient, returned, parserVars, builderVars, testcases,
                 closedAt, pageVars>>

Completion(e, stage, out, step) ==
  /\ endpoint = e
  /\ pc = stage
  /\ returned' = Append(returned, out)
  /\ Apply(step)
  /\ UNCHANGED <<rev, openaiClient, endpoint, body, parserVars, builderVars,
                 testcases, closedAt, pageVars>>

PlaceholderGenerateRequest ==
  \E b \in GenerateBodies({Undef}) :
    /\ rev = "placeholder"
    /\ Request("generate", b, PlaceholderGenerate(b))

FallbackGenerateRequest ==
  \E b \in GenerateBodies({Undef}) :
    /\ rev = "fallback"
    /\ Request("generate", b, FallbackGenerate(b, openaiClient))

FallbackGenerateCompletion ==
  \E out \in Outcomes(GenTexts) :
    /\ rev = "fallback"
    /\ Completion("generate", "responses", out,
                  FallbackGenerateResume(body, calls[1].prompt, out))

SingleGenerateRequest ==
  \E b \in GenerateBodies(CountValues) :
    /\ rev = "single"
    /\ Request("generate", b, SingleGenerate(b, openaiClient))

SingleGenerateCompletion ==
  \E out \in Outcomes(GenTexts) :
    /\ rev = "single"
    /\ Completion("generate", "generate", out,
                  SingleGenerateResume(calls[1].prompt, out))

SingleEvaluateRequest ==
  \E b \in EvaluateBodies :
    /\ rev = "single"
    /\ Request("evaluate", b, SingleEvaluate(b, openaiClient))

SingleEvaluateCompletion ==
  \E out \in Outcomes(JudgeReportTexts) :
    /\ rev = "single"
    /\ Completion("evaluate", "judge", out, SingleEvaluateResume(out))

TwoAgentGenerateRequest ==
  \E b \in GenerateBodies(CountValues) :
    /\ rev = "twoagent"
    /\ Request("generate", b, TwoAgentGenerate(b, openaiClient))

TwoAgentAgent1Completion ==
  \E out \in Outcomes(Agent1Texts) :
    /\ rev = "twoagent"
    /\ Completion("generate", "agent1", out, TwoAgentAgent1Resume(body, out))

TwoAgentAgent2Completion ==
  \E out \in Outcomes(GenTexts) :
    /\ rev = "twoagent"
    /\ Completion("generate", "agent2", out,
                  TwoAgentAgent2Resume(calls[1].prompt, calls[2].prompt, out))

TwoAgentEvaluateRequest ==
  \E b \in EvaluateBodies :
    /\ rev = "twoagent"
    /\ Request("evaluate", b, TwoAgentEvaluate(b, openaiClient))

TwoAgentEvaluateCompletion ==
  \E out \in Outcomes(JudgeReportTexts) :
    /\ rev = "twoagent"
    /\ Completion("evaluate", "judge", out, TwoAgentEvaluateResume(out))

\* the client goes away while the request awaits the completion service.
\* No handler of server.js listens for it: nothing but closedAt changes.
ClientDisconnect ==
  /\ pc \notin {"idle", "done"}
  /\ ClientConnected
  /\ closedAt' = Len(calls)
  /\ UNCHANGED <<serverVars, parserVars, builderVars, testcases, pageVars>>

\* a body as handleGenerate sends it: the trimmed rule, not empty, and the
\* trimmed example or null
SentByPage(b) ==
  /\ IsString(b.rule) /\ b.rule.s # <<>> /\ Trim(b.rule.s) = b.rule.s
  /\ \/ b.example = Null
     \/ IsString(b.example) /\ b.example.s # <<>> /\ Trim(b.example.s) = b.example.s
  /\ b.count = Undef

\* the page receives the response of its /generate request and fills the panels
HandleGenerate ==
  /\ endpoint = "generate"
  /\ pc = "done"
  /\ ClientConnected
  /\ SentByPage(body)
  /\ PageIdle
  /\ resultPanel' = GenerateResponseView(res).result
  /\ datasetPanel' = GenerateResponseView(res).dataset
  /\ generateButton' = ButtonReady
  /\ UNCHANGED <<serverVars, parserVars, builderVars, testcases, closedAt, fetches, shown>>

Next ==
  \/ PlaceholderGenerateRequest
  \/ FallbackGenerateRequest
  \/ FallbackGenerateCompletion
  \/ SingleGenerateRequest
  \/ SingleGenerateCompletion
  \/ SingleEvaluateRequest
  \/ SingleEvaluateCompletion
  \/ TwoAgentGenerateRequest
  \/ TwoAgentAgent1Completion
  \/ TwoAgentAgent2Completion
  \/ TwoAgentEvaluateRequest
  \/ TwoAgentEvaluateCompletion
  \/ ClientDisconnect
  \/ HandleGenerate

Spec == Init /\ [][Next]_vars

(***************************************************************************)
(* parseJudgeSummary as a run of its forEach loop.                         *)
(***************************************************************************)

ServerIdle ==
  /\ rev = "twoagent"
  /\ openaiClient = TRUE
  /\ endpoint = "none"
  /\ body = NoBody
  /\ pc = "idle"
  /\ calls = <<>>
  /\ returned = <<>>
  /\ agent1Text = <<>>
  /\ res = NoResponse

ParseInit ==
  /\ ServerIdle
  /\ BuilderIdle
  /\ testcases = <<>>
  /\ ClientConnected
  /\ PageIdle
  /\ summaryText \in SummaryTexts
  /\ ppc = "start"
  /\ lineNo = 0
  /\ judgesData = <<>>
  /\ currentJudge = 0

\* if (!summaryText) return []; otherwise the loop starts
ParseBegin ==
  /\ ppc = "start"
  /\ ppc' = IF summaryText = <<>> THEN "done" ELSE "loop"
  /\ lineNo' = IF summaryText = <<>> THEN 0 ELSE 1
  /\ UNCHANGED <<summaryText, judgesData, currentJudge, serverVars, builderVars,
                 testcases, closedAt, pageVars>>

\* one call of the forEach callback
ParseLine ==
  /\ ppc = "loop"
  /\ lineNo <= Len(SplitLines(summaryText))
  /\ LET st == ParseLineStep([judgesData |-> judgesData, currentJudge |-> currentJudge],
                             SplitLines(summaryText)[lineNo])
     IN  /\ judgesData' = st.judgesData
         /\ currentJudge' = st.currentJudge
  /\ lineNo' = lineNo + 1
  /\ UNCHANGED <<summaryText, ppc, serverVars, builderVars, testcases, closedAt,
                 pageVars>>

\* return judgesData
ParseReturn ==
  /\ ppc = "loop"
  /\ lineNo > Len(SplitLines(summaryText))
  /\ ppc' = "done"
  /\ UNCHANGED <<summaryText, lineNo, judgesData, currentJudge, serverVars,
                 builderVars, testcases, closedAt, pageVars>>

ParseNext == ParseBegin \/ ParseLine \/ ParseReturn

SpecParse == ParseInit /\ [][ParseNext]_vars

(***************************************************************************)
(* The builders called directly, as pure functions of their arguments.     *)
(***************************************************************************)

\* a rule of n characters, with a space in every tenth place
RuleOfLength(n) == [k \in 1..n |-> IF k % 10 = 0 THEN " " ELSE "r"]

\* the rule strings createFallbackTables is called with: short ones, one of
\* white space, and ones at and beyond the truncation length
FallbackRules ==
  {<<"n", "o">>, <<" ">>, <<" ", "b", "e", " ", " ", "k", "i", "n", "d", "\n">>,
   RuleOfLength(TaglineMax - 1), RuleOfLength(TaglineMax + 1),
   RuleOfLength(TaglineMax + 2), RuleOfLength(TaglineMax + TaglineKeep)}

FallbackExamples == {<<>>, <<" ">>, <<"h", "i">>}

\* the instruction blocks buildAgent2Prompt is called with; the last one
\* repeats pieces of the AGENT-2 template
Agent1Instructions ==
  {Undef, Null}
  \cup {Str(t) : t \in Agent1Texts}
  \cup {Str(<<"x", "\n", "- ", ProduceExactly, "9", ExamplesSuffixAgent2, "\n",
              "Now follow these additional instructions (these are from AGENT-1):",
              "\n", "\n",
              "After you finish, output ONLY the JSON described above. No extra text.",
              " ", "y">>)}

Invocations ==
  {[fn |-> "createFallbackTables", args |-> <<r, e>>] :
     r \in FallbackRules, e \in FallbackExamples}
  \cup {[fn |-> "buildAgent2Prompt", args |-> <<a, c>>] :
          a \in Agent1Instructions, c \in CountValues}

BuildInit ==
  /\ ServerIdle
  /\ ParserIdle
  /\ invocation \in Invocations
  /\ outcome = NoOutcome
  /\ testcases = <<>>
  /\ ClientConnected
  /\ PageIdle

CallCreateFallbackTables ==
  /\ invocation.fn = "createFallbackTables"
  /\ outcome = NoOutcome
  /\ outcome' = [kind |-> "returned",
                 value |-> Obj(CreateFallbackTables(invocation.args[1], invocation.args[2]))]
  /\ UNCHANGED <<serverVars, parserVars, invocation, testcases, closedAt, pageVars>>

CallBuildAgent2Prompt ==
  /\ invocation.fn = "buildAgent2Prompt"
  /\ outcome = NoOutcome
  /\ LET r == BuildAgent2Prompt(invocation.args[1], invocation.args[2])
     IN  outcome' = IF r.ok THEN [kind |-> "returned", value |-> Str(r.text)]
                           ELSE [kind |-> "threw", value |-> Str(r.error)]
  /\ UNCHANGED <<serverVars, parserVars, invocation, testcases, closedAt, pageVars>>

BuildNext == CallCreateFallbackTables \/ CallBuildAgent2Prompt

SpecBuild == BuildInit /\ [][BuildNext]_vars

(***************************************************************************)
(* POST /export-db of the two-agent revision.  The handler has no await:   *)
(* one request is one step.  A row holds the seven columns the handler     *)
(* binds; id and created_at, which SQLite assigns, are left out.           *)
(***************************************************************************)

\* typeof v === 'number'
IsNumber(v) == v.t \in {"num", "nan", "inf"}

\* the order in which the properties of a testcase are written
PropertyOrder ==
  <<"index", "text", "trigger", "confidence", "evaluation", "overallScore">>

\* parts joined by commas
RECURSIVE JoinCommas(_)
JoinCommas(parts) ==
  IF parts = <<>> THEN <<>>
  ELSE IF Len(parts) = 1 THEN parts[1]
  ELSE parts[1] \o <<",">> \o JoinCommas(Tail(parts))

\* JSON.stringify(v) for a value that came out of a JSON body
RECURSIVE JsonStringifyValue(_)
JsonStringifyValue(v) ==
  CASE v.t = "str" -> JsonStringify(v.s)
    [] v.t = "num" -> NumberToString(v)
    [] v.t = "bool" -> IF v.b THEN <<"t", "r", "u", "e">> ELSE <<"f", "a", "l", "s", "e">>
    [] v.t = "arr" ->
         <<"[">> \o JoinCommas([k \in 1..Len(v.items) |-> JsonStringifyValue(v.items[k])])
         \o <<"]">>
    [] v.t = "obj" ->
         LET Own(key) == key \in DOMAIN v.f
             keys == SelectSeq(PropertyOrder, Own)
         IN  <<"{">>
             \o JoinCommas([k \in 1..Len(keys) |->
                              JsonStringify(<<keys[k]>>) \o <<":">>
                              \o JsonStringifyValue(v.f[keys[k]])])
             \o <<"}">>
    [] OTHER -> <<"n", "u", "l", "l">>

\* the row testcases.map builds for the testcase at position index (1-based)
ExportRow(rule, tc, index) ==
  [idx |-> IF IsNumber(GetProp(tc, "index")) THEN GetProp(tc, "index") ELSE Num(index),
   text |-> OrElse(GetProp(tc, "text"), Str(<<>>)),
   trigger |-> IF GetProp(tc, "trigger").t = "bool"
                 THEN (IF GetProp(tc, "trigger").b THEN Num(1) ELSE Num(0))
                 ELSE Null,
   confidence |-> IF IsNumber(GetProp(tc, "confidence"))
                    THEN GetProp(tc, "confidence") ELSE Null,
   overall_score |->
     IF Truthy(GetProp(tc, "evaluation"))
        /\ IsNumber(GetProp(GetProp(tc, "evaluation"), "overallScore"))
       THEN GetProp(GetProp(tc, "evaluation"), "overallScore")
       ELSE Null,
   rule |-> IF IsString(rule) /\ Trim(rule.s) # <<>> THEN Str(Trim(rule.s)) ELSE Null,
   raw_json |-> Str(JsonStringifyValue(tc))]

\* what a statement of better-sqlite3 accepts as a parameter: numbers,
\* strings and null
Bindable(v) == v.t \in {"num", "str", "null"}

RowBindable(row) ==
  /\ Bindable(row.idx)
  /\ Bindable(row.text)
  /\ Bindable(row.confidence)
  /\ Bindable(row.overall_score)

ExportFailed(details) ==
  [status |-> 500,
   body |-> ("error" :> Str(<<"Failed to export DB">>)) @@ ("details" :> Str(details))]

\* the handler: its response and the table it leaves.  opens tells whether
\* new Database(dbPath) succeeds.  DELETE FROM testcases runs in db.exec,
\* before and outside the transaction that inserts the rows.
ExportDb(b, table, opens) ==
  IF ~IsArray(b.testcases) \/ Len(b.testcases.items) = 0
    THEN [res |-> [status |-> 400,
                   body |-> ErrorFields(<<"No testcases were provided to export.">>)],
          table |-> table]
  ELSE IF ~opens
    THEN [res |-> ExportFailed(<<"unable to open database file">>), table |-> table]
  ELSE IF \E k \in 1..Len(b.testcases.items) : b.testcases.items[k].t = "null"
    THEN [res |-> ExportFailed(<<"Cannot read properties of null (reading 'index')">>),
          table |-> <<>>]
  ELSE LET rows == [k \in 1..Len(b.testcases.items) |->
                      ExportRow(b.rule, b.testcases.items[k], k)]
       IN  IF \E k \in 1..Len(rows) : ~RowBindable(rows[k])
             THEN [res |-> ExportFailed(<<"SQLite3 can only bind numbers, strings, bigints, buffers, and null">>),
                   table |-> <<>>]
           ELSE [res |-> [status |-> 200,
                          body |-> ("ok" :> Bool(TRUE))
                                   @@ ("message" :> Str(<<"Database exported successfully.">>))
                                   @@ ("dbPath" :> Str(<<"db.db">>))
                                   @@ ("count" :> Num(Len(rows)))],
                 table |-> rows]

TestcaseFull ==
  Obj(("index" :> Num(7)) @@ ("text" :> Str(<<"h", "i">>)) @@ ("trigger" :> Bool(TRUE))
      @@ ("confidence" :> Dec(FALSE, 0, <<"5">>))
      @@ ("evaluation" :> Obj("overallScore" :> Num(4))))

\* a testcase whose text is an array
TestcaseUnbindable == Obj("text" :> Arr(<<>>))

TestcasesValues ==
  {Undef, Str(<<"x">>), Arr(<<>>), Arr(<<Testcase1>>), Arr(<<TestcaseFull>>),
   Arr(<<Testcase1, TestcaseFull>>), Arr(<<Testcase1, Null>>),
   Arr(<<TestcaseUnbindable>>), Arr(<<TestcaseFull, TestcaseUnbindable>>)}

\* the bodies of POST /export-db
ExportBodies ==
  {[NoBody EXCEPT !.rule = r, !.testcases = t] : r \in RuleValues, t \in TestcasesValues}

ExportInit ==
  /\ ServerIdle
  /\ ParserIdle
  /\ BuilderIdle
  /\ testcases = <<>>
  /\ ClientConnected
  /\ PageIdle

\* one request after another; the database file may fail to open
ExportDbRequest ==
  \E b \in ExportBodies, opens \in BOOLEAN :
    /\ rev = "twoagent"
    /\ endpoint \in {"none", "export-db"}
    /\ LET step == ExportDb(b, testcases, opens)
       IN  /\ res' = step.res
           /\ testcases' = step.table
    /\ endpoint' = "export-db"
    /\ body' = b
    /\ pc' = "done"
    /\ UNCHANGED <<rev, openaiClient, calls, returned, agent1Text, parserVars,
                   builderVars, closedAt, pageVars>>

ExportNext == ExportDbRequest

SpecExport == ExportInit /\ [][ExportNext]_vars

(***************************************************************************)
(* The page alone: handleGenerate of main.js with its two listeners.  The  *)
(* server is whatever answers the fetch.                                   *)
(***************************************************************************)

MaxRequests == 3

\* what the user may have typed into #rule and #example
RuleFieldValues == {<<>>, <<" ">>, <<"n", "o">>, <<" ", "b", "e", " ">>}

ExampleFieldValues == {<<>>, <<"h", "i", " ">>}

\* what a fetch of /generate may resolve to: a dataset as tables, a dataset
\* as examples, and an error status
FetchResponses ==
  {[status |-> 200,
    body |-> ("notes" :> Str(<<"x">>)) @@ ("tables" :> Arr(<<Obj("x" :> Num(1))>>))],
   [status |-> 200, body |-> "examples" :> Arr(<<Testcase1>>)],
   [status |-> 500, body |-> ErrorFields(<<"OPENAI_API_KEY not set.">>)]}

Working == [placeholder |-> "Working on it...", nodes |-> <<>>]

\* handleGenerate up to its await: the fields are trimmed, an empty rule
\* ends the call after the alert, otherwise the button is disabled, both
\* panels show the placeholder and the request is sent
StartGenerate(ruleValue, exampleValue, listener) ==
  LET rule == Trim(ruleValue)
      example == Trim(exampleValue)
  IN  IF rule = <<>>
        THEN UNCHANGED pageVars
        ELSE /\ generateButton' = [disabled |-> TRUE, label |-> "Generating..."]
             /\ resultPanel' = Working
             /\ datasetPanel' = Working
             /\ fetches' = Append(fetches,
                  [body |-> [NoBody EXCEPT !.rule = Str(rule),
                                           !.example = OrElse(Str(example), Null)],
                   listener |-> listener,
                   settled |-> FALSE])
             /\ shown' = shown

\* the click listener of the button; a disabled button receives no click
ClickGenerate ==
  \E r \in RuleFieldValues, e \in ExampleFieldValues :
    /\ ~generateButton.disabled
    /\ Len(fetches) < MaxRequests
    /\ StartGenerate(r, e, "click")
    /\ UNCHANGED <<serverVars, parserVars, builderVars, testcases, closedAt>>

\* the keydown listener of the two fields: Enter with Ctrl or Cmd
KeydownEnter ==
  \E r \in RuleFieldValues, e \in ExampleFieldValues :
    /\ Len(fetches) < MaxRequests
    /\ StartGenerate(r, e, "keydown")
    /\ UNCHANGED <<serverVars, parserVars, builderVars, testcases, closedAt>>

\* the fetch of one request in flight settles: handleGenerate resumes,
\* fills the panels and, in its finally block, enables the button
FetchSettled ==
  \E k \in 1..Len(fetches), r \in FetchResponses :
    /\ ~fetches[k].settled
    /\ fetches' = [fetches EXCEPT ![k].settled = TRUE]
    /\ resultPanel' = GenerateResponseView(r).result
    /\ datasetPanel' = GenerateResponseView(r).dataset
    /\ generateButton' = ButtonReady
    /\ shown' = k
    /\ UNCHANGED <<serverVars, parserVars, builderVars, testcases, closedAt>>

PageInit ==
  /\ ServerIdle
  /\ ParserIdle
  /\ BuilderIdle
  /\ testcases = <<>>
  /\ ClientConnected
  /\ PageIdle

PageNext == ClickGenerate \/ KeydownEnter \/ FetchSettled

SpecPage == PageInit /\ [][PageNext]_vars

(***************************************************************************)
(* Properties of the /generate and /evaluate pipeline (Spec).              *)
(***************************************************************************)

\* the completion answered nothing usable: the call threw, or carried no
\* text, or text that is empty after trimming
CompletionFailed(out) ==
  out.kind = "throw" \/ out.content.t # "str" \/ Trim(out.content.s) = <<>>

\* the part of an AGENT-2 prompt between the AGENT-1 marker line and the
\* closing instruction
SplicedInstructions(prompt) ==
  LET marker == "Now follow these additional instructions (these are from AGENT-1):"
      k == CHOOSE j \in 1..Len(prompt) :
             prompt[j] = marker /\ \A i \in 1..(j - 1) : prompt[i] # marker
  IN  SubSeq(prompt, k + 2, Len(prompt) - Len(Agent2Closing))

CarriesDataset(fields) == "examples" \in DOMAIN fields \/ "tables" \in DOMAIN fields

\* C1: in the two-agent /generate the AGENT-1 call comes first and the
\* AGENT-2 call is issued only after AGENT-1 returned non-empty text, with a
\* prompt that splices that text; if AGENT-1 threw or returned empty text no
\* AGENT-2 call exists and the request ended with a 500 that has no dataset.
C1_StagesInOrder ==
  (rev = "twoagent" /\ endpoint = "generate") =>
    /\ Len(calls) <= 2
    /\ \A k \in 1..Len(calls) : calls[k].stage = (IF k = 1 THEN "agent1" ELSE "agent2")
    /\ Len(calls) = 2 =>
         /\ Len(returned) >= 1
         /\ ~CompletionFailed(returned[1])
         /\ SplicedInstructions(calls[2].prompt) = Trim(returned[1].content.s)
    /\ (Len(returned) >= 1 /\ CompletionFailed(returned[1])) =>
         /\ Len(calls) = 1
         /\ pc = "done"
         /\ res.status = 500
         /\ "error" \in DOMAIN res.body
         /\ ~CarriesDataset(res.body)

\* an AGENT-2 call is in flight whose prompt splices a stage-1 text that
\* had surrounding white space
C1_Witness ==
  /\ rev = "twoagent"
  /\ pc = "agent2"
  /\ Len(calls) = 2
  /\ returned[1].content.s # Trim(returned[1].content.s)
  /\ SplicedInstructions(calls[2].prompt) = Trim(returned[1].content.s)

\* the rule of the body is missing, not a string, or empty after trimming
RuleMissing(b) == b.rule.t # "str" \/ Trim(b.rule.s) = <<>>

\* the examples of the body are missing, not an array, or empty
ExamplesMissing(b) == b.examples.t # "arr" \/ b.examples.items = <<>>

\* C2: a /generate request without a usable rule, and an /evaluate request
\* without a usable rule or without examples, is answered 400 at once, with
\* no upstream call and no dataset, in every revision, with or without a
\* configured credential.
C2_InvalidInputIs400 ==
  (endpoint # "none"
   /\ (RuleMissing(body) \/ (endpoint = "evaluate" /\ ExamplesMissing(body)))) =>
    /\ pc = "done"
    /\ res.status = 400
    /\ calls = <<>>
    /\ DOMAIN res.body = {"error"}

\* a blank rule was refused although a credential is configured
C2_Witness ==
  /\ endpoint = "generate"
  /\ openaiClient
  /\ body.rule.t = "str" /\ body.rule.s # <<>> /\ Trim(body.rule.s) = <<>>
  /\ res.status = 400

\* the completion of the call that generates the dataset, once it is in
GenerationReturned ==
  /\ endpoint = "generate"
  /\ pc = "done"
  /\ Len(returned) = (IF rev = "twoagent" THEN 2 ELSE 1)
  /\ returned[Len(returned)].kind = "ok"
  /\ returned[Len(returned)].content.t = "str"

GenerationText == returned[Len(returned)].content.s

RequiredKey == IF rev = "fallback" THEN "tables" ELSE "examples"

\* the text is not JSON, or is JSON without the required sequence
ShapeViolated(text, key) ==
  ~JSONParse(Trim(text)).ok \/ ~IsArray(GetProp(JSONParse(Trim(text)).v, key))

\* the response marks the generation stage as failed
StageFailed == res.status = 500 \/ GetProp(Obj(res.body), "usedFallback") = Bool(TRUE)

\* no member of the upstream payload is a field of the response
PayloadAbsent(text) ==
  LET r == JSONParse(Trim(text))
  IN  r.ok => \A key \in DOMAIN SpreadFields(r.v) :
                ~(key \in DOMAIN res.body /\ res.body[key] = SpreadFields(r.v)[key])

\* C3: when the generation completion is not valid JSON, or is JSON whose
\* required key (tables in the fallback revision, examples in the others)
\* is absent or not a sequence, the stage fails and nothing of the payload
\* is in the response.
C3_StrictJsonAtomic ==
  (GenerationReturned /\ ShapeViolated(GenerationText, RequiredKey)) =>
    (StageFailed /\ PayloadAbsent(GenerationText))

NonEmptySequence(fields, key) ==
  key \in DOMAIN fields /\ IsArray(fields[key]) /\ fields[key].items # <<>>

\* C4: every status-200 response of /generate carries tables or examples as
\* a non-empty sequence.
C4_DatasetNeverEmpty ==
  (endpoint = "generate" /\ pc = "done" /\ res.status = 200) =>
    (NonEmptySequence(res.body, "tables") \/ NonEmptySequence(res.body, "examples"))

\* the response is the Fallback Synthesizer's dataset, flagged with a reason
ServedFallback ==
  /\ res.status = 200
  /\ \A key \in {"notes", "tables"} :
       /\ key \in DOMAIN res.body
       /\ res.body[key] =
            CreateFallbackTables(Trim(body.rule.s), ExampleArg(body.example))[key]
  /\ GetProp(Obj(res.body), "usedFallback") = Bool(TRUE)
  /\ GetProp(Obj(res.body), "fallbackReason").t = "str"
  /\ GetProp(Obj(res.body), "fallbackReason").s # <<>>

NoCredentialRequest ==
  endpoint = "generate" /\ ~RuleMissing(body) /\ ~openaiClient /\ pc = "done"

\* C5 as stated: a /generate request with a valid rule and no credential is
\* served the synthesizer's dataset with usedFallback and a fallbackReason.
C5_Original == NoCredentialRequest => (ServedFallback /\ calls = <<>>)

\* C5 as amended: that holds in the fallback revision; the single-prompt and
\* two-agent revisions answer 500 without a dataset, and the placeholder
\* revision serves the synthesizer's dataset with usedFallback and without
\* a fallbackReason.  No revision issues an upstream call.
C5_FallbackWithoutCredential ==
  NoCredentialRequest =>
    /\ calls = <<>>
    /\ rev = "fallback" => ServedFallback
    /\ rev \in {"single", "twoagent"} =>
         (res.status = 500 /\ DOMAIN res.body = {"error"})
    /\ rev = "placeholder" =>
         /\ res.status = 200
         /\ res.body["tables"] =
              CreateFallbackTables(Trim(body.rule.s), ExampleArg(body.example))["tables"]
         /\ res.body["usedFallback"] = Bool(TRUE)
         /\ "fallbackReason" \notin DOMAIN res.body

\* the fallback revision served the synthesizer's dataset, the user's
\* example first, without a credential
C5_Witness ==
  /\ rev = "fallback"
  /\ NoCredentialRequest
  /\ ExampleArg(body.example) # <<>>
  /\ ServedFallback
  /\ Len(res.body["tables"].items[1].f["sampleRows"].items) = 4

\* C6: a /generate request issues at most two upstream calls, one per
\* stage, an /evaluate request at most one, and no call follows a call that
\* threw or returned empty text.
C6_NoRetryBoundedCalls ==
  /\ endpoint = "generate" => Len(calls) <= 2
  /\ endpoint = "evaluate" => Len(calls) <= 1
  /\ \A j, k \in 1..Len(calls) : calls[j].stage = calls[k].stage => j = k
  /\ Len(returned) <= Len(calls)
  /\ \A k \in 1..Len(returned) : CompletionFailed(returned[k]) => Len(calls) = k

\* the second call of a /generate request failed and the request ended
C6_Witness ==
  /\ endpoint = "generate"
  /\ Len(calls) = 2
  /\ Len(returned) = 2
  /\ CompletionFailed(returned[2])
  /\ pc = "done"

\* the atoms between "Produce exactly " and the suffix that follows the count
EmbeddedCount(prompt) ==
  LET k == CHOOSE j \in 1..Len(prompt) : prompt[j] = ProduceExactly
      e == CHOOSE j \in (k + 1)..Len(prompt) :
             /\ prompt[j] \in {ExamplesSuffixSingle, ExamplesSuffixAgent2}
             /\ \A i \in (k + 1)..(j - 1) :
                  prompt[i] \notin {ExamplesSuffixSingle, ExamplesSuffixAgent2}
  IN  SubSeq(prompt, k + 1, e - 1)

\* the requested count is missing, not numeric, not finite or not positive;
\* a string counts as the number it spells
CountInvalid(c) ==
  CASE c.t = "num" -> ~Positive(c)
    [] c.t = "str" -> ~(NumberIsFinite(StringToNumber(c.s)) /\ Positive(StringToNumber(c.s)))
    [] OTHER -> TRUE

\* the case-generation prompt the request emitted
CaseGenerationPrompt == calls[Len(calls)].prompt

CaseGenerationEmitted ==
  /\ endpoint = "generate"
  /\ rev \in {"single", "twoagent"}
  /\ Len(calls) = (IF rev = "single" THEN 1 ELSE 2)

\* C10: when the requested count is invalid the case-generation prompt
\* embeds the default count of the revision, 15 or 100.
C10_InvalidCountUsesDefault ==
  (CaseGenerationEmitted /\ CountInvalid(body.count)) =>
    EmbeddedCount(CaseGenerationPrompt) =
      NatToDigits(IF rev = "single" THEN DefaultCountSingle ELSE DefaultCountTwoAgent)

\* the /evaluate request was valid, a credential is configured, and the
\* judge call threw or returned no text
EvaluateCallFailed ==
  /\ endpoint = "evaluate"
  /\ ~RuleMissing(body)
  /\ ~ExamplesMissing(body)
  /\ openaiClient
  /\ Len(returned) = 1
  /\ CompletionFailed(returned[1])

EvaluateStageErrors ==
  {Str(<<"Failed to evaluate testcases with judges">>),
   Str(<<"Failed to evaluate testcases">>)}

\* C13: when the judge call of a valid /evaluate request throws or returns
\* empty text, the response is a 500 whose error names the evaluation and
\* which holds neither judgeSummary nor judges.
C13_EvaluateFailureIs500 ==
  EvaluateCallFailed =>
    /\ pc = "done"
    /\ res.status = 500
    /\ "error" \in DOMAIN res.body
    /\ res.body["error"] \in EvaluateStageErrors
    /\ "judgeSummary" \notin DOMAIN res.body
    /\ "judges" \notin DOMAIN res.body

\* the judge call of an /evaluate request with one testcase returned white
\* space only and the request was answered 500
C13_Witness ==
  /\ EvaluateCallFailed
  /\ returned[1].kind = "ok"
  /\ returned[1].content.t = "str"
  /\ returned[1].content.s # <<>>
  /\ Len(body.examples.items) = 1
  /\ res.status = 500

\* every upstream call of the /generate request succeeded and the last text
\* is JSON whose examples field is a sequence
GenerationSucceeded ==
  /\ rev \in {"single", "twoagent"}
  /\ GenerationReturned
  /\ \A k \in 1..Len(returned) : ~CompletionFailed(returned[k])
  /\ ~ShapeViolated(GenerationText, "examples")

UpstreamExamples == GetProp(JSONParse(Trim(GenerationText)).v, "examples")

\* C14: a /generate request whose upstream calls all succeed with a final
\* JSON text holding an examples sequence is answered 200 with exactly that
\* sequence as examples, and with usedFallback false or absent, whatever
\* other keys the JSON holds.
C14_SuccessPassesExamples ==
  GenerationSucceeded =>
    /\ res.status = 200
    /\ "examples" \in DOMAIN res.body
    /\ res.body["examples"] = UpstreamExamples
    /\ ("usedFallback" \in DOMAIN res.body => res.body["usedFallback"] = Bool(FALSE))

\* C19: once the client has left, the call in flight is aborted, so it
\* never returns a completion, and no further call is started.
C19_CancellationPropagates ==
  ~ClientConnected =>
    /\ Len(calls) = closedAt
    /\ \A k \in closedAt..Len(returned) : returned[k].kind # "ok"

PageHandled == resultPanel # EmptyPanel

JudgeSummaryMissing(fields) ==
  ~IsString(GetProp(Obj(fields), "judgeSummary"))
  \/ Trim(GetProp(Obj(fields), "judgeSummary").s) = <<>>

HasNode(panel, node) == \E k \in 1..Len(panel.nodes) : panel.nodes[k] = node

\* C20: when /generate answered 200 and the judge summary is missing or
\* empty, the page renders the dataset, reports no generation error and
\* shows the 'Judge summary was unavailable' note.
C20_JudgeFailureDegrades ==
  (PageHandled /\ res.status = 200 /\ JudgeSummaryMissing(res.body)) =>
    /\ HasNode(resultPanel, JudgeSummaryUnavailable)
    /\ ~HasNode(resultPanel, GenerateFailedView.result.nodes[1])
    /\ datasetPanel.nodes # <<>>

\* the example of the body is absent, null, empty or white space only
ExampleMissing(b) ==
  b.example \in {Undef, Null} \/ (IsString(b.example) /\ Trim(b.example.s) = <<>>)

\* the atoms the AGENT-1 prompt embeds as its style example: what stands
\* between the example marker and the closing two atoms of the template
EmbeddedExample(prompt) ==
  LET marker == "If an example was provided, match its tone and complexity: - Example (style): "
      k == CHOOSE j \in 1..Len(prompt) :
             prompt[j] = marker /\ \A i \in (j + 1)..Len(prompt) : prompt[i] # marker
  IN  SubSeq(prompt, k + 1, Len(prompt) - 2)

ExampleSection ==
  "Example content provided by the user. New examples should be similar in difficulty to moderate:"

HasAtom(prompt, atom) == \E k \in 1..Len(prompt) : prompt[k] = atom

\* C23: the AGENT-1 prompt of a request with a missing example embeds the
\* quoted '(no example provided)' placeholder, never the empty quoted
\* string, and the single-prompt prompt holds the user-example section
\* exactly when the example is a string that is non-empty after trimming.
C23_MissingExampleExplicit ==
  /\ (rev = "twoagent" /\ endpoint = "generate" /\ Len(calls) >= 1 /\ ExampleMissing(body)) =>
       /\ EmbeddedExample(calls[1].prompt) = JsonStringify(NoExamplePlaceholder)
       /\ EmbeddedExample(calls[1].prompt) # <<"\"", "\"">>
  /\ (rev = "single" /\ endpoint = "generate" /\ Len(calls) >= 1) =>
       (HasAtom(calls[1].prompt, ExampleSection)
          <=> (IsString(body.example) /\ Trim(body.example.s) # <<>>))

\* /generate answered 200 from the upstream JSON, not from the fallback
AnsweredFromUpstream ==
  /\ endpoint = "generate"
  /\ pc = "done"
  /\ res.status = 200
  /\ Len(returned) = Len(calls)
  /\ Len(returned) >= 1
  /\ "openAiError" \notin DOMAIN res.body

\* C25: a response built from the upstream JSON carries the prompt text the
\* server sent (prompt, or prompts with the two texts in the two-agent
\* revision), and usedFallback false in the fallback revision, whatever
\* keys the upstream JSON holds.
C25_ServerFieldsKept ==
  AnsweredFromUpstream =>
    /\ rev \in {"fallback", "single"} =>
         GetProp(Obj(res.body), "prompt") = Str(calls[1].prompt)
    /\ rev = "twoagent" =>
         GetProp(Obj(res.body), "prompts")
           = Obj(("agent1" :> Str(calls[1].prompt)) @@ ("agent2" :> Str(calls[2].prompt)))
    /\ rev = "fallback" => GetProp(Obj(res.body), "usedFallback") = Bool(FALSE)

(***************************************************************************)
(* Properties of parseJudgeSummary (SpecParse).                            *)
(***************************************************************************)

\* the lines of the argument, as the text holds them
RawLines == SplitLines(summaryText)

IsWellFormedHeader(l) == \E h \in WellFormedHeaders : RenderHeader(h.name) = l

IsWellFormedVerdict(l) ==
  \E v \in WellFormedVerdicts : RenderVerdict(v.testcaseId, v.percentage, v.rationale) = l

\* the record and the verdict a well-formed line was rendered from
HeaderRecord(l) ==
  LET h == CHOOSE h \in WellFormedHeaders : RenderHeader(h.name) = l
  IN  [name |-> h.name, verdicts |-> <<>>]

VerdictRecord(l) ==
  LET v == CHOOSE v \in WellFormedVerdicts :
             RenderVerdict(v.testcaseId, v.percentage, v.rationale) = l
  IN  [testcaseId |-> Num(v.testcaseId), percentage |-> v.percentage,
       rationale |-> v.rationale]

\* the records a well-formed report was rendered from: one per header, with
\* the verdict lines that follow it up to the next header
RECURSIVE ReportRecords(_, _)
ReportRecords(acc, ls) ==
  IF ls = <<>> THEN acc
  ELSE IF IsWellFormedHeader(ls[1])
    THEN ReportRecords(Append(acc, HeaderRecord(ls[1])), Tail(ls))
  ELSE IF acc = <<>> THEN ReportRecords(acc, Tail(ls))
  ELSE ReportRecords([acc EXCEPT ![Len(acc)].verdicts = Append(@, VerdictRecord(ls[1]))],
                     Tail(ls))

\* C7: for a report made of 'Judge: <Name>' headers and '- Testcase N: P% -
\* rest' lines only, the result is one record per header, in order, holding
\* one verdict (N, P, rest) per following line up to the next header.
C7_WellFormedReportParsed ==
  (/\ ppc = "done"
   /\ \A k \in 1..Len(RawLines) :
        IsWellFormedHeader(RawLines[k]) \/ IsWellFormedVerdict(RawLines[k])) =>
    judgesData = ReportRecords(<<>>, RawLines)

\* the report of the specification's example was parsed into Ana's record
C7_Witness ==
  /\ ppc = "done"
  /\ summaryText = <<"J", "u", "d", "g", "e", ":", " ", "A", "n", "a", "\n", "-", " ", "T", "e", "s", "t", "c", "a", "s", "e", " ", "1", ":", " ", "7", "2", "%", " ", "-", " ", "c", "l", "e", "a", "r", " ", "m", "a", "t", "c", "h", "\n", "-", " ", "T", "e", "s", "t", "c", "a", "s", "e", " ", "2", ":", " ", "1", "5", "%", " ", "-", " ", "n", "o", " ", "m", "a", "t", "c", "h">>
  /\ judgesData =
       << [name |-> <<"A", "n", "a">>,
           verdicts |->
             << [testcaseId |-> Num(1), percentage |-> Num(72), rationale |-> <<"c", "l", "e", "a", "r", " ", "m", "a", "t", "c", "h">>],
                [testcaseId |-> Num(2), percentage |-> Num(15), rationale |-> <<"n", "o", " ", "m", "a", "t", "c", "h">>] >>] >>

\* the line the callback is about to read
RawLine == RawLines[lineNo]

ReadingLine == ppc = "loop" /\ lineNo <= Len(RawLines)

\* the callback is at a line under an open judge that is no header and that
\* the verdict pattern does not match
AtUnmatchedLine ==
  /\ ReadingLine
  /\ currentJudge # 0
  /\ ~IsJudgeHeader(Trim(RawLine))
  /\ ~VerdictMatch(Trim(RawLine)).ok

\* the step appends {null, null, rationale} to the open judge and changes
\* nothing else
AppendsDegraded(rationale) ==
  /\ judgesData' =
       [judgesData EXCEPT ![currentJudge].verdicts =
          Append(@, [testcaseId |-> Null, percentage |-> Null, rationale |-> rationale])]
  /\ currentJudge' = currentJudge
  /\ ppc' = "loop"
  /\ lineNo' = lineNo + 1

\* C8 as stated: a non-empty unmatched line under an open judge appends
\* {null, null, the raw line} to that judge and keeps everything collected.
C8_Original == [][(AtUnmatchedLine /\ RawLine # <<>>) => AppendsDegraded(RawLine)]_vars

\* C8 as amended: an unmatched line under an open judge that is non-empty
\* after trimming appends {null, null, the trimmed line} to that judge and
\* keeps every record and every verdict collected; a line of white space
\* alone changes nothing; the loop goes on in both cases.
C8_DegradedVerdictKept ==
  [][AtUnmatchedLine =>
       IF Trim(RawLine) # <<>>
         THEN AppendsDegraded(Trim(RawLine))
         ELSE /\ judgesData' = judgesData
              /\ currentJudge' = currentJudge
              /\ ppc' = "loop"
              /\ lineNo' = lineNo + 1]_vars

\* a judge holds a matched verdict followed by the degraded verdict of the
\* line " nb\r", trimmed
C8_Witness ==
  /\ ppc = "done"
  /\ Len(RawLines) = 3
  /\ RawLines[3] = <<" ", "n", "b", "\r">>
  /\ Len(judgesData) = 1
  /\ Len(judgesData[1].verdicts) = 2
  /\ judgesData[1].verdicts[1].testcaseId = Num(1)
  /\ judgesData[1].verdicts[2] =
       [testcaseId |-> Null, percentage |-> Null, rationale |-> <<"n", "b">>]

HeaderAt(k) == IsJudgeHeader(Trim(RawLines[k]))

\* the lines from the first judge: header on
FromFirstHeader ==
  IF \E k \in 1..Len(RawLines) : HeaderAt(k)
    THEN LET first == CHOOSE k \in 1..Len(RawLines) :
                        HeaderAt(k) /\ \A j \in 1..(k - 1) : ~HeaderAt(j)
         IN  SubSeq(RawLines, first, Len(RawLines))
    ELSE <<>>

\* C9: the result for a text is the result for the text without the lines
\* before its first judge: header, and is empty when there is no header.
C9_LinesBeforeHeaderIgnored ==
  ppc = "done" =>
    /\ judgesData = ParseJudgeSummary(JoinLines(FromFirstHeader))
    /\ FromFirstHeader = <<>> => judgesData = <<>>

\* a report that opens with a verdict line and a malformed line before its
\* first header was parsed into that header's record alone
C9_Witness ==
  /\ ppc = "done"
  /\ Len(RawLines) = 3
  /\ IsWellFormedVerdict(RawLines[1])
  /\ RawLines[2] = <<"-", " ", "w", "e", "i", "r", "d", " ", "f", "o", "r", "m", "a", "t">>
  /\ HeaderAt(3)
  /\ Len(judgesData) = 1
  /\ judgesData[1].verdicts = <<>>

\* C11: the count embedded in the case-generation prompt is a positive
\* integer, whatever count was requested: digits only, and not zero.
C11_EmbeddedCountPositiveInteger ==
  CaseGenerationEmitted =>
    /\ EmbeddedCount(CaseGenerationPrompt) # <<>>
    /\ AllDigits(EmbeddedCount(CaseGenerationPrompt))
    /\ DigitsToNat(EmbeddedCount(CaseGenerationPrompt)) > 0

(***************************************************************************)
(* Properties of the builders (SpecBuild).                                 *)
(***************************************************************************)

CalledCreateFallbackTables ==
  invocation.fn = "createFallbackTables" /\ outcome # NoOutcome

\* the tagline inside a text that holds it between one leading atom and a
\* closing full stop
TaglineIn(text) == SubSeq(text, 2, Len(text) - 1)

\* C12: createFallbackTables returns, for every rule and example, one table
\* of three columns and three rows, or four with the example first when one
\* is given; every row has the keys message, decision, rationale with a
\* decision of allow, review or flag; the tagline in the notes and in the
\* flagged row has at most 120 characters.
C12_FallbackTotalNonEmpty ==
  CalledCreateFallbackTables =>
    /\ outcome.kind = "returned"
    /\ LET payload == outcome.value.f
           example == invocation.args[2]
           table == payload["tables"].items[1].f
           rows == table["sampleRows"].items
       IN  /\ Len(payload["tables"].items) = 1
           /\ Len(table["columns"].items) = 3
           /\ Len(rows) = (IF example # <<>> THEN 4 ELSE 3)
           /\ example # <<>> => rows[1].f["message"] = Str(example)
           /\ \A k \in 1..Len(rows) :
                /\ DOMAIN rows[k].f = {"message", "decision", "rationale"}
                /\ rows[k].f["decision"] \in {Str(<<"allow">>), Str(<<"review">>), Str(<<"flag">>)}
           /\ Len(TaglineIn(payload["notes"].s)) <= TaglineMax
           /\ Len(TaglineIn(rows[Len(rows) - 2].f["message"].s)) <= TaglineMax
           /\ TaglineIn(payload["notes"].s) = TaglineIn(rows[Len(rows) - 2].f["message"].s)

\* a rule of more than 120 characters gave a tagline of exactly 120 that
\* ends in the ellipsis, in a table whose first row is the user's example
C12_Witness ==
  /\ CalledCreateFallbackTables
  /\ Len(invocation.args[1]) > TaglineMax
  /\ invocation.args[2] # <<>>
  /\ Len(outcome.value.f["tables"].items[1].f["sampleRows"].items) = 4
  /\ Len(TaglineIn(outcome.value.f["notes"].s)) = TaglineMax
  /\ SubSeq(TaglineIn(outcome.value.f["notes"].s), TaglineKeep + 1, TaglineMax)
       = <<".", ".", ".">>

CalledBuildAgent2Prompt ==
  invocation.fn = "buildAgent2Prompt" /\ outcome # NoOutcome

\* the stage-1 output has text left after trimming
Agent1NonEmpty(a) == a.t = "str" /\ Trim(a.s) # <<>>

\* the last n atoms of a text
LastAtoms(text, n) == SubSeq(text, Len(text) - n + 1, Len(text))

\* C17: for stage-1 output that is non-empty after trimming the prompt
\* opens with the fixed AGENT-2 header and ends with the fixed requirements,
\* the trimmed stage-1 text and the fixed closing instruction, so that only
\* the count between header and requirements and the spliced text vary; for
\* stage-1 output that is empty after trimming the builder throws.
C17_Agent2FramePreserved ==
  CalledBuildAgent2Prompt =>
    LET a == invocation.args[1]
        fixedTail == Agent2Requirements \o Trim(a.s) \o Agent2Closing
    IN  IF Agent1NonEmpty(a)
          THEN /\ outcome.kind = "returned"
               /\ Len(outcome.value.s) > Len(Agent2Header) + Len(fixedTail)
               /\ SubSeq(outcome.value.s, 1, Len(Agent2Header)) = Agent2Header
               /\ LastAtoms(outcome.value.s, Len(fixedTail)) = fixedTail
               /\ LastAtoms(outcome.value.s, Len(Agent2Closing)) = Agent2Closing
          ELSE outcome.kind = "threw"

\* a prompt was built from stage-1 text that itself repeats the header's
\* count line and the closing instruction
C17_Witness ==
  /\ CalledBuildAgent2Prompt
  /\ outcome.kind = "returned"
  /\ \E k \in 1..Len(invocation.args[1].s) :
       invocation.args[1].s[k] = Agent2Closing[Len(Agent2Closing)]
  /\ invocation.args[2] = Num(2)

\* a number of the closed range from 0 to 100
InPercentRange(v) ==
  /\ v.t = "num"
  /\ ~v.neg \/ (v.int = 0 /\ v.frac = <<>>)
  /\ v.int < 100 \/ (v.int = 100 /\ v.frac = <<>>)

\* C15: every verdict of the result has a percentage that is null or a
\* number from 0 to 100, never a larger number and never NaN.
C15_PercentageInRange ==
  ppc = "done" =>
    \A j \in 1..Len(judgesData) :
      \A k \in 1..Len(judgesData[j].verdicts) :
        \/ judgesData[j].verdicts[k].percentage = Null
        \/ InPercentRange(judgesData[j].verdicts[k].percentage)

RosterNames == {judges[k].name : k \in 1..Len(judges)}

\* C16: the result holds exactly one record for each judge of the roster
\* and no record for any other name, whatever the report.
C16_OneRecordPerRosterMember ==
  ppc = "done" =>
    /\ \A name \in RosterNames :
         Cardinality({j \in 1..Len(judgesData) : judgesData[j].name = name}) = 1
    /\ \A j \in 1..Len(judgesData) : judgesData[j].name \in RosterNames

\* the positions of the lines that begin with 'judge:', with or without a name
HeaderIndices == {k \in 1..Len(RawLines) : HeaderAt(k)}

\* the position of the j-th such line
NthHeader(j) ==
  CHOOSE k \in HeaderIndices : Cardinality({i \in HeaderIndices : i <= k}) = j

\* the line is neither blank nor a header
IsContentLine(k) == Trim(RawLines[k]) # <<>> /\ ~HeaderAt(k)

\* the content lines between the j-th header and the next header
LinesUnder(j) ==
  {k \in 1..Len(RawLines) :
     /\ IsContentLine(k)
     /\ k > NthHeader(j)
     /\ \A h \in HeaderIndices : h > NthHeader(j) => k < h}

\* C21: every line that begins with 'judge:' opens a record named by the
\* text after its first colon, and the record of a header holds one verdict
\* for each content line between that header and the next, so that no line
\* after a header lands in the record of an earlier one.
C21_HeaderOpensRecord ==
  ppc = "done" =>
    /\ Len(judgesData) = Cardinality(HeaderIndices)
    /\ \A j \in 1..Len(judgesData) :
         /\ judgesData[j].name = HeaderName(Trim(RawLines[NthHeader(j)]))
         /\ Len(judgesData[j].verdicts) = Cardinality(LinesUnder(j))

\* the verdicts of all records, in order
RECURSIVE AllVerdicts(_)
AllVerdicts(records) ==
  IF records = <<>> THEN <<>>
  ELSE records[1].verdicts \o AllVerdicts(Tail(records))

\* the positions of the content lines that follow the first header
FollowingLines ==
  {k \in 1..Len(RawLines) : IsContentLine(k) /\ \E h \in HeaderIndices : h < k}

NthFollowing(i) ==
  CHOOSE k \in FollowingLines : Cardinality({n \in FollowingLines : n <= k}) = i

\* C22: the verdicts of the result, taken record by record, are the
\* content lines that follow the first judge header, one verdict per line
\* and in the order of the lines, matched or degraded as each line is.
C22_NothingDroppedOrReordered ==
  ppc = "done" =>
    /\ Len(AllVerdicts(judgesData)) = Cardinality(FollowingLines)
    /\ \A i \in 1..Len(AllVerdicts(judgesData)) :
         AllVerdicts(judgesData)[i] = VerdictOf(Trim(RawLines[NthFollowing(i)]))

(***************************************************************************)
(* Properties of /export-db (SpecExport).                                  *)
(***************************************************************************)

\* the rows of a batch, one per testcase, in order
BatchRows(b) ==
  [k \in 1..Len(b.testcases.items) |-> ExportRow(b.rule, b.testcases.items[k], k)]

\* C18: after an export request the table holds exactly the rows of the
\* batch when the request succeeded, and is unchanged when it failed with
\* status 400 or 500.
C18_ExportAtomicPerBatch ==
  [][endpoint' = "export-db" =>
       \/ res'.status = 200 /\ testcases' = BatchRows(body')
       \/ res'.status \in {400, 500} /\ testcases' = testcases]_vars

(***************************************************************************)
(* Properties of the page (SpecPage).                                      *)
(***************************************************************************)

InFlight == {k \in 1..Len(fetches) : ~fetches[k].settled}

\* C24: at most one request of the page is in flight, and when none is in
\* flight after a request the panels show the outcome of the request
\* started last and the button is enabled with the label 'Generate'.
C24_OneRequestInFlight ==
  /\ Cardinality(InFlight) <= 1
  /\ (InFlight = {} /\ fetches # <<>>) =>
       /\ shown = Len(fetches)
       /\ generateButton = ButtonReady

====
